---- MODULE Spec2Model ----
(***************************************************************************)
(* A model of the compiler pipeline of hojahoja/Compilers-project:         *)
(* type checker (type_checker.py), IR generator (ir_generator.py) and      *)
(* assembly generator (assembly_generator.py), run on bounded families of  *)
(* abstract syntax trees (bast.py) under Spec, and tokenizer               *)
(* (tokenizer.py) and parser (parser.py), run on bounded families of       *)
(* source texts under FrontEndSpec; the symbol table (symtab.py) on its    *)
(* own under SymTabSpec.                                                   *)
(***************************************************************************)
EXTENDS Integers, Sequences, FiniteSets, TLC

(***************************************************************************)
(* c_types.py (Int, Bool and Unit are IntT, BoolT and UnitT here)          *)
(***************************************************************************)
IntT == [name |-> "Integer"]
BoolT == [name |-> "Boolean"]
UnitT == [name |-> "Unit"]

\* FunType(name, params, return_type).  Python compares types both by
\* identity ("is") and by value ("=="); id names the object: the name under
\* which the root table binds the FunType when it is created.
FunType(name, params, return_type, id) ==
    [name |-> name, params |-> params, return_type |-> return_type, id |-> id]

IsFunType(t) == "params" \in DOMAIN t

\* t1 is t2
TypeIs(t1, t2) == t1 = t2

\* t1 == t2 (the dataclass __eq__: same class and equal fields)
TypeEq(t1, t2) ==
    IF IsFunType(t1) /\ IsFunType(t2)
    THEN /\ t1.name = t2.name
         /\ t1.params = t2.params
         /\ t1.return_type = t2.return_type
    ELSE IF IsFunType(t1) \/ IsFunType(t2) THEN FALSE
    ELSE t1.name = t2.name

(***************************************************************************)
(* symtab.py: a chain of scopes is a sequence of maps, the root first and  *)
(* the current scope last.                                                 *)
(***************************************************************************)
EmptyMap == <<>>

NoValue == [none |-> TRUE]

RECURSIVE get_value(_, _)
get_value(st, symbol) ==
    LET n == Len(st)
    IN IF n > 1 /\ symbol \notin DOMAIN st[n]
       THEN get_value(SubSeq(st, 1, n - 1), symbol)
       ELSE IF symbol \in DOMAIN st[n] THEN st[n][symbol] ELSE NoValue

\* whether get_value finds a binding (require raises NameError otherwise)
IsBound(st, symbol) == \E k \in 1..Len(st) : symbol \in DOMAIN st[k]

bound_in_any_scope(st, symbol) == IsBound(st, symbol)

in_locals(st, symbol) == symbol \in DOMAIN st[Len(st)]

\* dict[key] = value
MapSet(map, key, value) ==
    [s \in (DOMAIN map) \cup {key} |-> IF s = key THEN value ELSE map[s]]

add_local(st, symbol, value) == [st EXCEPT ![Len(st)] = MapSet(@, symbol, value)]

child(st) == Append(st, EmptyMap)

\* Python's truth value of a value: None, False and 0 are false; the
\* types of c_types.py and the IRVars are objects, which are true
truthy(value) ==
    IF "none" \in DOMAIN value THEN FALSE
    ELSE IF "py" \in DOMAIN value
    THEN IF value.py = "int" THEN value.n # -value.carry
         ELSE IF value.py = "bool" THEN value.b
         ELSE FALSE
    ELSE TRUE

\* require(symbol): the value, or NameError when get_value's result is
\* not true
require(st, symbol) ==
    IF ~truthy(get_value(st, symbol)) THEN [err |-> "NameError", value |-> NoValue]
    ELSE [err |-> "", value |-> get_value(st, symbol)]

(***************************************************************************)
(* bast.py: the AST.  loc is the node's source location; type is the slot  *)
(* the type checker writes, Unit by default.                               *)
(***************************************************************************)
None == [kind |-> "None"]

\* A Python integer is unbounded: it is the sum n + carry of a 32-bit
\* number and a small one, so that the values next to both ends of the
\* 32-bit range exist.
IntValueWide(n, carry) == [py |-> "int", n |-> n, carry |-> carry]
IntValue(n) == IntValueWide(n, 0)
BoolValue(b) == [py |-> "bool", b |-> b]
NoneValue == [py |-> "NoneType"]

Literal(value) == [kind |-> "Literal", loc |-> <<>>, type |-> UnitT, value |-> value]
Identifier(name) == [kind |-> "Identifier", loc |-> <<>>, type |-> UnitT, name |-> name]
TypeExpression(name) ==
    [kind |-> "TypeExpression", loc |-> <<>>, type |-> UnitT, name |-> name]
Declaration(name, expression, type_expression) ==
    [kind |-> "Declaration", loc |-> <<>>, type |-> UnitT,
     identifier |-> Identifier(name), expression |-> expression,
     type_expression |-> type_expression]
BinaryOp(left, op, right) ==
    [kind |-> "BinaryOp", loc |-> <<>>, type |-> UnitT,
     left |-> left, op |-> op, right |-> right]
UnaryOp(op, expression) ==
    [kind |-> "UnaryOp", loc |-> <<>>, type |-> UnitT, op |-> op, expression |-> expression]
IfExpression(if_condition, then_clause, else_clause) ==
    [kind |-> "IfExpression", loc |-> <<>>, type |-> UnitT,
     if_condition |-> if_condition, then_clause |-> then_clause,
     else_clause |-> else_clause]
WhileExpression(condition, body) ==
    [kind |-> "WhileExpression", loc |-> <<>>, type |-> UnitT,
     condition |-> condition, body |-> body]
BreakExpression == [kind |-> "BreakExpression", loc |-> <<>>, type |-> UnitT, name |-> "break"]
ContinueExpression ==
    [kind |-> "ContinueExpression", loc |-> <<>>, type |-> UnitT, name |-> "continue"]
FuncExpression(name, args) ==
    [kind |-> "FuncExpression", loc |-> <<>>, type |-> UnitT,
     identifier |-> Identifier(name), args |-> args]
BlockExpression(body) ==
    [kind |-> "BlockExpression", loc |-> <<>>, type |-> UnitT, body |-> body]
ReturnExpression(result) ==
    [kind |-> "ReturnExpression", loc |-> <<>>, type |-> UnitT, result |-> result]
FuncParam(name, type_name) ==
    [kind |-> "FuncParam", loc |-> <<>>, name |-> name,
     type_expression |-> TypeExpression(type_name)]
FuncDef(name, params, body, type_expression) ==
    [kind |-> "FuncDef", loc |-> <<>>, type |-> UnitT, name |-> name, params |-> params,
     body |-> body, type_expression |-> type_expression]
Module(body) == [kind |-> "Module", loc |-> <<>>, body |-> body]

IsExpression(node) == node.kind \notin {"None", "FuncDef", "FuncParam", "Module"}

(***************************************************************************)
(* tokenizer.py.  The source text is a string; index is a Python index     *)
(* into it, counted from 0.  A pattern's match at an index is given by its *)
(* end, match.end(), and a pattern that does not match by NoMatch.         *)
(***************************************************************************)
NoMatch == -1

\* \s, \d and \w of the regular expressions, over ASCII
whitespace_chars == {" ", "\t", "\n", "\r", "\f"}
digit_chars == {"0", "1", "2", "3", "4", "5", "6", "7", "8", "9"}
letter_chars ==
    {"a", "b", "c", "d", "e", "f", "g", "h", "i", "j", "k", "l", "m", "n", "o", "p", "q",
     "r", "s", "t", "u", "v", "w", "x", "y", "z", "A", "B", "C", "D", "E", "F", "G", "H",
     "I", "J", "K", "L", "M", "N", "O", "P", "Q", "R", "S", "T", "U", "V", "W", "X", "Y",
     "Z", "_"}
word_chars == letter_chars \cup digit_chars

\* source_code[index], "" past the end
char_at(source_code, index) ==
    IF 0 <= index /\ index < Len(source_code)
    THEN SubSeq(source_code, index + 1, index + 1) ELSE ""

\* source_code.startswith(text, index)
starts_with(source_code, index, text) ==
    /\ index + Len(text) <= Len(source_code)
    /\ SubSeq(source_code, index + 1, index + Len(text)) = text

\* \b at index: a word character on exactly one side
word_boundary(source_code, index) ==
    (char_at(source_code, index - 1) \in word_chars)
        # (char_at(source_code, index) \in word_chars)

\* the end of the longest run of characters of chars from index on
RECURSIVE run_end(_, _, _)
run_end(source_code, index, chars) ==
    IF char_at(source_code, index) \in chars
    THEN run_end(source_code, index + 1, chars) ELSE index

\* .* : the end of the line, the index of the next "\n" or of the end
RECURSIVE line_end(_, _)
line_end(source_code, index) ==
    IF index < Len(source_code) /\ char_at(source_code, index) # "\n"
    THEN line_end(source_code, index + 1) ELSE index

\* [\s\S]*?\*/ : the end of the first "*/" from index on
RECURSIVE comment_end(_, _)
comment_end(source_code, index) ==
    IF index + 2 > Len(source_code) THEN NoMatch
    ELSE IF starts_with(source_code, index, "*/") THEN index + 2
    ELSE comment_end(source_code, index + 1)

\* \b(w1|w2|...)\b : the first alternative that matches between two word
\* boundaries
RECURSIVE whole_word(_, _, _, _)
whole_word(source_code, index, words, k) ==
    IF k > Len(words) THEN NoMatch
    ELSE IF /\ starts_with(source_code, index, words[k])
            /\ word_boundary(source_code, index)
            /\ word_boundary(source_code, index + Len(words[k]))
    THEN index + Len(words[k])
    ELSE whole_word(source_code, index, words, k + 1)

\* the first of the texts that stands at index
RECURSIVE one_of(_, _, _, _)
one_of(source_code, index, texts, k) ==
    IF k > Len(texts) THEN NoMatch
    ELSE IF starts_with(source_code, index, texts[k]) THEN index + Len(texts[k])
    ELSE one_of(source_code, index, texts, k + 1)

\* the keys of skip_patterns and of token_patterns, in the order of the dicts
skip_patterns == <<"whitespace", "comment", "multiline_comment">>

token_patterns ==
    <<"while_loop", "conditional", "declaration", "operator", "bool_literal",
      "int_literal", "identifier", "punctuation">>

\* skip_patterns[skip_type].match(source_code, index)
skip_match(skip_type, source_code, index) ==
    CASE skip_type = "whitespace" ->
           IF char_at(source_code, index) \in whitespace_chars
           THEN run_end(source_code, index, whitespace_chars) ELSE NoMatch
      [] skip_type = "comment" ->
           IF starts_with(source_code, index, "//") THEN line_end(source_code, index + 2)
           ELSE IF starts_with(source_code, index, "#")
           THEN line_end(source_code, index + 1)
           ELSE NoMatch
      [] skip_type = "multiline_comment" ->
           IF starts_with(source_code, index, "/*")
           THEN comment_end(source_code, index + 2) ELSE NoMatch

\* the operator pattern: a word operator, else a two-character operator,
\* else a one-character operator
operator_match(source_code, index) ==
    IF whole_word(source_code, index, <<"and", "or", "not">>, 1) # NoMatch
    THEN whole_word(source_code, index, <<"and", "or", "not">>, 1)
    ELSE IF one_of(source_code, index, <<"==", "!=", "<=", ">=">>, 1) # NoMatch
    THEN one_of(source_code, index, <<"==", "!=", "<=", ">=">>, 1)
    ELSE one_of(source_code, index, <<"-", "+", "*", "/", "%", "=", "<", ">">>, 1)

\* token_patterns[token_type].match(source_code, index)
token_match(token_type, source_code, index) ==
    CASE token_type = "while_loop" -> whole_word(source_code, index, <<"while", "do">>, 1)
      [] token_type = "conditional" ->
           whole_word(source_code, index, <<"if", "then", "else">>, 1)
      [] token_type = "declaration" -> whole_word(source_code, index, <<"var">>, 1)
      [] token_type = "operator" -> operator_match(source_code, index)
      [] token_type = "bool_literal" ->
           whole_word(source_code, index, <<"true", "false">>, 1)
      [] token_type = "int_literal" ->
           IF char_at(source_code, index) \in digit_chars
           THEN run_end(source_code, index, digit_chars) ELSE NoMatch
      [] token_type = "identifier" ->
           IF char_at(source_code, index) \in letter_chars
           THEN run_end(source_code, index, word_chars) ELSE NoMatch
      [] token_type = "punctuation" ->
           one_of(source_code, index, <<"(", ")", "{", "}", ",", ";", ":">>, 1)

Location(line, column) == [line |-> line, column |-> column]

Token(type, text, location) == [type |-> type, text |-> text, location |-> location]

\* skipped_pattern.count("\n")
RECURSIVE count_linebreaks(_, _)
count_linebreaks(skipped_pattern, index) ==
    IF index >= Len(skipped_pattern) THEN 0
    ELSE (IF char_at(skipped_pattern, index) = "\n" THEN 1 ELSE 0)
         + count_linebreaks(skipped_pattern, index + 1)

\* skipped_pattern.rfind("\n"), searched down from index
RECURSIVE rfind_linebreak(_, _)
rfind_linebreak(skipped_pattern, index) ==
    IF index < 0 THEN -1
    ELSE IF char_at(skipped_pattern, index) = "\n" THEN index
    ELSE rfind_linebreak(skipped_pattern, index - 1)

\* A faulty variant of adjust_column_position_after_skip: the column runs
\* on over the line breaks.
column_never_reset(st, skipped_pattern) ==
    [st EXCEPT !.line = @ + count_linebreaks(skipped_pattern, 0),
               !.column = @ + Len(skipped_pattern)]

\* st holds the loop's i, line and column and the tokens so far
adjust_column_position_after_skip(st, skipped_pattern) ==
    [st EXCEPT
        !.line = @ + count_linebreaks(skipped_pattern, 0),
        !.column =
            IF count_linebreaks(skipped_pattern, 0) > 0
               /\ char_at(skipped_pattern, Len(skipped_pattern) - 1) = "\n"
            THEN 0
            ELSE IF count_linebreaks(skipped_pattern, 0) > 0
            THEN Len(skipped_pattern)
                 - rfind_linebreak(skipped_pattern, Len(skipped_pattern) - 1) - 1
            ELSE @ + Len(skipped_pattern)]

skip_pattern_end(st, skip_type, source_code, end) ==
    IF end = NoMatch THEN st
    ELSE IF skip_type \in {"whitespace", "multiline_comment"}
    THEN [adjust_column_position_after_skip(st, SubSeq(source_code, st.i + 1, end))
             EXCEPT !.i = end]
    ELSE [st EXCEPT !.i = end]

skip_pattern(st, skip_type, source_code) ==
    skip_pattern_end(st, skip_type, source_code, skip_match(skip_type, source_code, st.i))

extract_token_end(st, token_type, source_code, end) ==
    IF end = NoMatch THEN st
    ELSE [st EXCEPT
             !.tokens = Append(@, Token(token_type, SubSeq(source_code, st.i + 1, end),
                                        Location(st.line, st.column + 1))),
             !.column = @ + end - st.i,
             !.i = end]

extract_token(st, token_type, source_code) ==
    extract_token_end(st, token_type, source_code,
                      token_match(token_type, source_code, st.i))

\* for s_type in skip_patterns.keys(): i = skip_pattern(...)
RECURSIVE skip_all(_, _, _)
skip_all(st, k, source_code) ==
    IF k > Len(skip_patterns) THEN st
    ELSE skip_all(skip_pattern(st, skip_patterns[k], source_code), k + 1, source_code)

\* for t_type in token_patterns.keys(): i = extract_token(...)
RECURSIVE extract_all(_, _, _)
extract_all(st, k, source_code) ==
    IF k > Len(token_patterns) THEN st
    ELSE extract_all(extract_token(st, token_patterns[k], source_code), k + 1,
                     source_code)

\* the while loop of tokenize: st is the state after one round, started at
\* start
RECURSIVE tokenize_loop(_, _)
tokenize_round_end(st, start, source_code) ==
    IF st.i = start THEN [err |-> "SyntaxError", tokens |-> st.tokens]
    ELSE tokenize_loop(st, source_code)

tokenize_loop(st, source_code) ==
    IF st.i >= Len(source_code) THEN [err |-> "", tokens |-> st.tokens]
    ELSE tokenize_round_end(extract_all(skip_all(st, 1, source_code), 1, source_code),
                            st.i, source_code)

tokenize(source_code) ==
    tokenize_loop([i |-> 0, line |-> 1, column |-> 0, tokens |-> <<>>], source_code)

(***************************************************************************)
(* parser.py.  pos is the Python index of the next token, counted from 0;  *)
(* a parsing function yields the node it built and the pos it stopped at,  *)
(* or the exception it raised.                                             *)
(***************************************************************************)
Parsed(node, pos) == [err |-> "", node |-> node, pos |-> pos]
ParseError(err) == [err |-> err, node |-> None, pos |-> 0]

\* the node built with location=location
At(node, location) == [node EXCEPT !.loc = location]

\* ast.Expression()
Expression == [kind |-> "Expression", loc |-> Location(1, 1), type |-> UnitT]

peek(tokens, pos) ==
    IF pos < Len(tokens) THEN tokens[pos + 1]
    ELSE Token("end", "", tokens[Len(tokens)].location)

\* tokens[pos - 1]
previous(tokens, pos) == tokens[pos]

\* int(token.text)
RECURSIVE int_of(_, _)
int_of(text, k) ==
    IF k = 0 THEN 0
    ELSE 10 * int_of(text, k - 1)
         + (CHOOSE d \in 0..9 : ToString(d) = SubSeq(text, k, k))

\* the levels of binary operators, the loosest first
binary_operators_additive_last ==
    <<{"or"}, {"and"}, {"==", "!="}, {"<", ">", "<=", ">="}, {"*", "/", "%"}, {"+", "-"}>>

binary_operators ==
    <<{"or"}, {"and"}, {"==", "!="}, {"<", ">", "<=", ">="}, {"+", "-"}, {"*", "/", "%"}>>

RECURSIVE parse_expression(_, _)
RECURSIVE parse_binary_term(_, _, _)
RECURSIVE binary_term_loop(_, _, _, _)
RECURSIVE parse_unary_term(_, _)
RECURSIVE parse_factor(_, _)
RECURSIVE block_loop(_, _, _, _)
RECURSIVE arguments_loop(_, _, _)

parse_int_literal(tokens, pos) ==
    IF peek(tokens, pos).type # "int_literal" THEN ParseError("Exception")
    ELSE Parsed(At(Literal(IntValue(int_of(peek(tokens, pos).text,
                                           Len(peek(tokens, pos).text)))),
                   peek(tokens, pos).location),
                pos + 1)

parse_bool_literal(tokens, pos) ==
    IF peek(tokens, pos).type # "bool_literal" THEN ParseError("Exception")
    ELSE Parsed(At(Literal(BoolValue(peek(tokens, pos).text = "true")),
                   peek(tokens, pos).location),
                pos + 1)

parse_identifier(tokens, pos) ==
    IF peek(tokens, pos).type # "identifier" THEN ParseError("SyntaxError")
    ELSE Parsed(At(Identifier(peek(tokens, pos).text), peek(tokens, pos).location),
                pos + 1)

parse_type_expression(tokens, pos) ==
    IF peek(tokens, pos).type # "identifier" THEN ParseError("SyntaxError")
    ELSE Parsed(At(TypeExpression(peek(tokens, pos).text), peek(tokens, pos).location),
                pos + 1)

parse_break_or_continue_expression(tokens, pos) ==
    IF peek(tokens, pos).text = "continue"
    THEN Parsed(At(ContinueExpression, peek(tokens, pos).location), pos + 1)
    ELSE IF peek(tokens, pos).text = "break"
    THEN Parsed(At(BreakExpression, peek(tokens, pos).location), pos + 1)
    ELSE ParseError("SyntaxError")

\* parse_expression after the left side, and after the right side of "="
parse_expression_right(tokens, left, right) ==
    IF right.err # "" THEN right
    ELSE Parsed(At(BinaryOp(left.node, peek(tokens, left.pos).text, right.node),
                   peek(tokens, left.pos).location),
                right.pos)

parse_expression_left(tokens, left) ==
    IF left.err # "" THEN left
    ELSE IF peek(tokens, left.pos).text = "="
    THEN parse_expression_right(tokens, left, parse_expression(tokens, left.pos + 1))
    ELSE left

\* binary_operators of a call is the levels from level on
parse_expression(tokens, pos) ==
    parse_expression_left(tokens, parse_binary_term(tokens, pos, 1))

parse_next_level_term(tokens, pos, level) ==
    IF Len(binary_operators) - level + 1 > 1
    THEN parse_binary_term(tokens, pos, level + 1)
    ELSE parse_unary_term(tokens, pos)

binary_term_right(tokens, left, level, k, right) ==
    IF right.err # "" THEN right
    ELSE binary_term_loop(
             tokens,
             Parsed(At(BinaryOp(left.node, peek(tokens, left.pos).text, right.node),
                       peek(tokens, left.pos).location),
                    right.pos),
             level, k)

\* for operators in binary_operators: while peek().text in operators; k is
\* the index of operators among all the levels
binary_term_loop(tokens, left, level, k) ==
    IF left.err # "" THEN left
    ELSE IF k > Len(binary_operators) THEN left
    ELSE IF peek(tokens, left.pos).text \in binary_operators[k]
    THEN binary_term_right(tokens, left, level, k,
                           parse_next_level_term(tokens, left.pos + 1, level))
    ELSE binary_term_loop(tokens, left, level, k + 1)

parse_binary_term(tokens, pos, level) ==
    binary_term_loop(tokens, parse_next_level_term(tokens, pos, level), level, level)

parse_unary_end(tokens, pos, e) ==
    IF e.err # "" THEN e
    ELSE Parsed(At(UnaryOp(peek(tokens, pos).text, e.node), peek(tokens, pos).location),
                e.pos)

parse_unary_term(tokens, pos) ==
    IF peek(tokens, pos).text \in {"-", "not"}
    THEN parse_unary_end(tokens, pos, parse_unary_term(tokens, pos + 1))
    ELSE parse_factor(tokens, pos)

\* consume(expected) after the expression e
consume_after(tokens, e, expected) ==
    IF e.err # "" THEN e
    ELSE IF peek(tokens, e.pos).text # expected THEN ParseError("SyntaxError")
    ELSE Parsed(e.node, e.pos + 1)

parse_parenthesized(tokens, pos) ==
    consume_after(tokens, parse_expression(tokens, pos + 1), ")")

var_is_allowed(tokens, pos) ==
    pos = 0 \/ previous(tokens, pos).text \in {"{", "}", ";"}

parse_variable_declaration_end(name, typ, location, body) ==
    IF body.err # "" THEN body
    ELSE Parsed([At(Declaration(name.node.name, body.node, typ.node), location)
                    EXCEPT !.identifier = name.node],
                body.pos)

\* consume("=") and the initializer, after the optional type
parse_variable_declaration_body(tokens, name, typ, location) ==
    IF typ.err # "" THEN typ
    ELSE IF peek(tokens, typ.pos).text # "=" THEN ParseError("SyntaxError")
    ELSE parse_variable_declaration_end(name, typ, location,
                                        parse_expression(tokens, typ.pos + 1))

parse_variable_declaration_type(tokens, name, location) ==
    IF name.err # "" THEN name
    ELSE IF peek(tokens, name.pos).text = ":"
    THEN parse_variable_declaration_body(
             tokens, name, parse_type_expression(tokens, name.pos + 1), location)
    ELSE parse_variable_declaration_body(tokens, name, Parsed(None, name.pos), location)

parse_variable_declaration(tokens, pos) ==
    IF ~var_is_allowed(tokens, pos) THEN ParseError("SyntaxError")
    ELSE IF peek(tokens, pos).text # "var" THEN ParseError("SyntaxError")
    ELSE parse_variable_declaration_type(tokens, parse_identifier(tokens, pos + 1),
                                         peek(tokens, pos).location)

parse_if_end(condition, then_clause, else_clause, location) ==
    IF else_clause.err # "" THEN else_clause
    ELSE Parsed(At(IfExpression(condition.node, then_clause.node, else_clause.node),
                   location),
                else_clause.pos)

parse_if_else(tokens, condition, then_clause, location) ==
    IF then_clause.err # "" THEN then_clause
    ELSE IF peek(tokens, then_clause.pos).text = "else"
    THEN parse_if_end(condition, then_clause,
                      parse_expression(tokens, then_clause.pos + 1), location)
    ELSE parse_if_end(condition, then_clause, Parsed(None, then_clause.pos), location)

parse_if_then(tokens, condition, location) ==
    IF condition.err # "" THEN condition
    ELSE parse_if_else(tokens, condition, parse_expression(tokens, condition.pos),
                       location)

parse_if_expression(tokens, pos) ==
    parse_if_then(tokens, consume_after(tokens, parse_expression(tokens, pos + 1), "then"),
                  peek(tokens, pos).location)

parse_while_end(condition, body, location) ==
    IF body.err # "" THEN body
    ELSE Parsed(At(WhileExpression(condition.node, body.node), location), body.pos)

parse_while_body(tokens, condition, location) ==
    IF condition.err # "" THEN condition
    ELSE parse_while_end(condition, parse_expression(tokens, condition.pos), location)

parse_while_expression(tokens, pos) ==
    parse_while_body(tokens, consume_after(tokens, parse_expression(tokens, pos + 1), "do"),
                     peek(tokens, pos).location)

\* parse_statement after its expression e: the statements with what the
\* statement appended, or the exception
parse_statement_end(tokens, statements, e) ==
    IF e.err # "" THEN e
    ELSE IF peek(tokens, e.pos).text = ";"
    THEN IF peek(tokens, e.pos + 1).text = "}" \/ peek(tokens, e.pos + 1).type = "end"
         THEN Parsed(statements \o <<e.node, At(Literal(NoneValue), peek(tokens, e.pos + 1).location)>>,
                     e.pos + 1)
         ELSE Parsed(Append(statements, e.node), e.pos + 1)
    ELSE IF /\ e.node.kind \in {"Identifier", "Literal"}
            /\ \/ peek(tokens, e.pos).type \in {"int_literal", "bool_literal", "identifier"}
               \/ peek(tokens, e.pos).text = "{"
    THEN ParseError("SyntaxError")
    ELSE Parsed(Append(statements, e.node), e.pos)

parse_statement(tokens, pos, statements) ==
    parse_statement_end(tokens, statements, parse_expression(tokens, pos))

block_next(tokens, location, s) ==
    IF s.err # "" THEN s ELSE block_loop(tokens, s.pos, s.node, location)

\* while peek().text != "}": parse_statement(statements)
block_loop(tokens, pos, statements, location) ==
    IF peek(tokens, pos).text # "}"
    THEN block_next(tokens, location, parse_statement(tokens, pos, statements))
    ELSE Parsed(At(BlockExpression(statements), location), pos + 1)

parse_block(tokens, pos) ==
    IF peek(tokens, pos).text # "{" THEN ParseError("SyntaxError")
    ELSE block_loop(tokens, pos + 1, <<>>, peek(tokens, pos).location)

arguments_next(tokens, args, e) ==
    IF e.err # "" THEN e ELSE arguments_loop(tokens, e.pos, Append(args, e.node))

\* while peek().text == ",", and consume(")")
arguments_loop(tokens, pos, args) ==
    IF peek(tokens, pos).text = ","
    THEN arguments_next(tokens, args, parse_expression(tokens, pos + 1))
    ELSE IF peek(tokens, pos).text # ")" THEN ParseError("SyntaxError")
    ELSE Parsed(args, pos + 1)

parse_arguments(tokens, pos) ==
    IF peek(tokens, pos).text # "(" THEN ParseError("SyntaxError")
    ELSE IF peek(tokens, pos + 1).text = ")" THEN arguments_loop(tokens, pos + 1, <<>>)
    ELSE arguments_next(tokens, <<>>, parse_expression(tokens, pos + 1))

parse_call_end(expr, location, args) ==
    IF args.err # "" THEN args
    ELSE Parsed([At(FuncExpression(expr.node.name, args.node), location)
                    EXCEPT !.identifier = expr.node],
                args.pos)

\* parse_factor after the expression: a call when "(" follows an identifier
parse_factor_end(tokens, expr) ==
    IF expr.err # "" THEN expr
    ELSE IF peek(tokens, expr.pos).text = "(" /\ expr.node.kind = "Identifier"
    THEN parse_call_end(expr, previous(tokens, expr.pos).location,
                        parse_arguments(tokens, expr.pos))
    ELSE expr

parse_factor_expr(tokens, pos) ==
    IF peek(tokens, pos).text = "(" THEN parse_parenthesized(tokens, pos)
    ELSE IF peek(tokens, pos).type = "declaration"
    THEN parse_variable_declaration(tokens, pos)
    ELSE IF peek(tokens, pos).text = "if" THEN parse_if_expression(tokens, pos)
    ELSE IF peek(tokens, pos).text = "while" THEN parse_while_expression(tokens, pos)
    ELSE IF peek(tokens, pos).type = "break_continue"
    THEN parse_break_or_continue_expression(tokens, pos)
    ELSE IF peek(tokens, pos).type = "int_literal" THEN parse_int_literal(tokens, pos)
    ELSE IF peek(tokens, pos).type = "bool_literal" THEN parse_bool_literal(tokens, pos)
    ELSE IF peek(tokens, pos).type = "identifier" THEN parse_identifier(tokens, pos)
    ELSE IF peek(tokens, pos).text = "{" THEN parse_block(tokens, pos)
    ELSE ParseError("SyntaxError")

parse_factor(tokens, pos) == parse_factor_end(tokens, parse_factor_expr(tokens, pos))

\* the while loop of parse_top_level_block: first is the first expression,
\* looped whether the loop has run, location the location of the block of
\* the last round
RECURSIVE top_level_loop(_, _, _, _, _, _)
top_level_append(tokens, first, statements, location, e) ==
    IF e.err # "" THEN e
    ELSE top_level_loop(tokens, e.pos, first, Append(statements, e.node), TRUE, location)

top_level_round(tokens, pos, first, statements) ==
    IF peek(tokens, pos).type = "end"
    THEN top_level_loop(tokens, pos, first,
                        Append(statements, At(Literal(NoneValue), peek(tokens, pos).location)),
                        TRUE, peek(tokens, pos).location)
    ELSE top_level_append(tokens, first, statements, peek(tokens, pos).location,
                          parse_expression(tokens, pos))

top_level_loop(tokens, pos, first, statements, looped, location) ==
    IF \/ peek(tokens, pos).text \in {";", "{"}
       \/ previous(tokens, pos).text = "}" /\ peek(tokens, pos).type # "end"
    THEN IF peek(tokens, pos).text = ";"
         THEN top_level_round(tokens, pos + 1, first, statements)
         ELSE IF /\ peek(tokens, pos).text = "{"
                 /\ ~looped
                 /\ first.kind \in {"Literal", "Identifier"}
         THEN ParseError("SyntaxError")
         ELSE top_level_round(tokens, pos, first, statements)
    ELSE IF looped THEN Parsed(At(BlockExpression(statements), location), pos)
    ELSE Parsed(first, pos)

parse_top_level_block_end(tokens, expr) ==
    IF expr.err # "" THEN expr
    ELSE top_level_loop(tokens, expr.pos, expr.node, <<expr.node>>, FALSE,
                        expr.node.loc)

parse_top_level_block(tokens) ==
    parse_top_level_block_end(tokens, parse_expression(tokens, 0))

parse_end(tokens, expression) ==
    IF expression.err # "" THEN expression
    ELSE IF expression.pos < Len(tokens) THEN ParseError("SyntaxError")
    ELSE expression

parse(tokens) ==
    IF tokens = <<>> THEN Parsed(Expression, 0)
    ELSE parse_end(tokens, parse_top_level_block(tokens))

(***************************************************************************)
(* type_checker.py                                                         *)
(***************************************************************************)
known_types == [Bool |-> BoolT, Int |-> IntT, Unit |-> UnitT]

BuiltinFun(id, params, return_type) == FunType("function", params, return_type, id)
Operator(id, params, return_type) == FunType("operator", params, return_type, id)

root_table ==
    [s \in {"print_int", "print_bool", "read_int", "+", "-", "*", "/", "%", "<", "<=",
            ">", ">=", "==", "!=", "unary_-", "unary_not", "and", "or"} |->
        CASE s = "print_int" -> BuiltinFun(s, <<IntT>>, UnitT)
          [] s = "print_bool" -> BuiltinFun(s, <<BoolT>>, UnitT)
          [] s = "read_int" -> BuiltinFun(s, <<IntT>>, IntT)
          [] s \in {"+", "-", "*", "/", "%"} -> Operator(s, <<IntT, IntT>>, IntT)
          [] s \in {"<", "<=", ">", ">="} -> Operator(s, <<IntT, IntT>>, BoolT)
          [] s \in {"==", "!="} -> Operator(s, <<>>, BoolT)
          [] s = "unary_-" -> Operator(s, <<IntT>>, IntT)
          [] s = "unary_not" -> Operator(s, <<BoolT>>, BoolT)
          [] s \in {"and", "or"} -> Operator(s, <<BoolT, BoolT>>, BoolT)]

\* The result of checking a node: err is "" or the exception raised, type
\* the node's type, node the node with the types written into it, table the
\* scope chain after the walk.
Checked(type, node, table) == [err |-> "", type |-> type, node |-> node, table |-> table]
Raised(err) == [err |-> err, type |-> UnitT, node |-> None, table |-> <<>>]

\* convert(expr): the type an annotation names.  NoFunction is the value of
\* function_return_value outside function bodies (Python None).
NoFunction == [none |-> TRUE]

\* A faulty variant of convert: a name that is no known type is taken as Unit.
convert_unknown_as_unit(expr) ==
    IF expr.kind = "None" \/ expr.name \notin DOMAIN known_types
    THEN Checked(UnitT, expr, <<>>)
    ELSE Checked(known_types[expr.name],
                 [expr EXCEPT !.type = known_types[expr.name]], <<>>)

convert(expr) ==
    IF expr.kind = "None" THEN Checked(UnitT, expr, <<>>)
    ELSE IF expr.name \in DOMAIN known_types
    THEN Checked(known_types[expr.name],
                 [expr EXCEPT !.type = known_types[expr.name]], <<>>)
    ELSE Raised("TypeError")

\* The first index at which the zipped parameter and argument types differ,
\* 0 when there is none.
RECURSIVE first_mismatch(_, _, _)
first_mismatch(params, arg_types, i) ==
    IF i > Len(params) \/ i > Len(arg_types) THEN 0
    ELSE IF ~TypeEq(params[i], arg_types[i]) THEN i
    ELSE first_mismatch(params, arg_types, i + 1)

\* A faulty variant of IfExpression_result: without an else branch the
\* type is Unit.
IfExpression_unit_without_else(t2, t3, walked, table) ==
    IF TypeIs(t3, UnitT) THEN Checked(UnitT, walked, table)
    ELSE IF ~TypeEq(t2, t3) THEN Raised("TypeError")
    ELSE Checked(t3, walked, table)

\* the branch types t2 and t3 of an IfExpression decide its type
IfExpression_result(t2, t3, walked, table) ==
    IF TypeIs(t3, UnitT) THEN Checked(t2, walked, table)
    ELSE IF ~TypeEq(t2, t3) THEN Raised("TypeError")
    ELSE Checked(t3, walked, table)

\* A faulty variant of ReturnExpression_result: the returned type is not
\* compared.
ReturnExpression_unchecked(t1, function_return_value, walked, table) ==
    Checked(UnitT, walked, table)

\* the type t1 of the returned value against the expected return type
ReturnExpression_result(t1, function_return_value, walked, table) ==
    IF TypeEq(t1, function_return_value) THEN Checked(UnitT, walked, table)
    ELSE Raised("TypeError")

RECURSIVE get_type(_, _, _), check_sequence(_, _, _, _, _, _)

assign_type(node, table, function_return_value) ==
    LET r == get_type(node, table, function_return_value)
    IN IF r.err # "" \/ node.kind = "None" THEN r
       ELSE [r EXCEPT !.node = [r.node EXCEPT !.type = r.type]]

\* assign_type over body[i..], threading the table; done collects the
\* checked nodes and types the type of the last one checked.
check_sequence(body, i, table, function_return_value, done, types) ==
    IF i > Len(body)
    THEN [err |-> "", nodes |-> done, types |-> types, table |-> table]
    ELSE LET r == assign_type(body[i], table, function_return_value)
         IN IF r.err # "" THEN [err |-> r.err, nodes |-> done, types |-> types,
                                table |-> table]
            ELSE check_sequence(body, i + 1, r.table, function_return_value,
                                Append(done, r.node), Append(types, r.type))

get_type(node, table, function_return_value) ==
    CASE node.kind = "Literal" ->
           Checked(IF node.value.py = "int" THEN IntT
                   ELSE IF node.value.py = "bool" THEN BoolT
                   ELSE UnitT, node, table)
      [] node.kind = "Identifier" ->
           IF IsBound(table, node.name)
           THEN Checked(get_value(table, node.name), node, table)
           ELSE Raised("NameError")
      [] node.kind = "BinaryOp" ->
           LET l == assign_type(node.left, table, function_return_value)
           IN IF l.err # "" THEN l ELSE
           LET r == assign_type(node.right, l.table, function_return_value)
           IN IF r.err # "" THEN r ELSE
           LET t1 == l.type
               t2 == r.type
               walked == [node EXCEPT !.left = l.node, !.right = r.node]
               binary_type == get_value(r.table, node.op)
           IN IF node.op \in {"=", "==", "!="}
              THEN IF ~TypeIs(t1, t2) THEN Raised("TypeError")
                   ELSE Checked(IF node.op = "=" THEN t2 ELSE BoolT, walked, r.table)
              ELSE IF IsBound(r.table, node.op) /\ IsFunType(binary_type)
              THEN IF Len(binary_type.params) # 2 THEN Raised("ValueError")
                   ELSE IF ~TypeIs(t1, binary_type.params[1]) THEN Raised("TypeError")
                   ELSE IF ~TypeIs(t2, binary_type.params[2]) THEN Raised("TypeError")
                   ELSE Checked(binary_type.return_type, walked, r.table)
              ELSE Checked(UnitT, walked, r.table)
      [] node.kind = "UnaryOp" ->
           LET e == assign_type(node.expression, table, function_return_value)
           IN IF e.err # "" THEN e ELSE
           LET unary_type == get_value(e.table, "unary_" \o node.op)
               walked == [node EXCEPT !.expression = e.node]
           IN IF IsBound(e.table, "unary_" \o node.op) /\ IsFunType(unary_type)
              THEN IF Len(unary_type.params) = 0 THEN Raised("IndexError")
                   ELSE IF ~TypeIs(e.type, unary_type.params[1]) THEN Raised("TypeError")
                   ELSE Checked(unary_type.return_type, walked, e.table)
              ELSE Checked(UnitT, walked, e.table)
      [] node.kind = "WhileExpression" ->
           LET c == assign_type(node.condition, table, function_return_value)
           IN IF c.err # "" THEN c ELSE
              IF ~TypeEq(c.type, BoolT) THEN Raised("TypeError") ELSE
           LET b == assign_type(node.body, c.table, function_return_value)
           IN IF b.err # "" THEN b
              ELSE Checked(b.type, [node EXCEPT !.condition = c.node, !.body = b.node],
                           b.table)
      [] node.kind = "IfExpression" ->
           LET c == assign_type(node.if_condition, table, function_return_value)
           IN IF c.err # "" THEN c ELSE
              IF ~TypeIs(c.type, BoolT) THEN Raised("TypeError") ELSE
           LET t == assign_type(node.then_clause, c.table, function_return_value)
           IN IF t.err # "" THEN t ELSE
           LET e == assign_type(node.else_clause, t.table, function_return_value)
           IN IF e.err # "" THEN e ELSE
           LET t2 == t.type
               t3 == e.type
               walked == [node EXCEPT !.if_condition = c.node, !.then_clause = t.node,
                                      !.else_clause = e.node]
           IN IfExpression_result(t2, t3, walked, e.table)
      [] node.kind = "BlockExpression" ->
           LET b == check_sequence(node.body, 1, child(table), function_return_value,
                                   <<>>, <<>>)
           IN IF b.err # "" THEN Raised(b.err)
              ELSE Checked(IF Len(b.types) = 0 THEN UnitT ELSE b.types[Len(b.types)],
                           [node EXCEPT !.body = b.nodes],
                           SubSeq(b.table, 1, Len(table)))
      [] node.kind = "Declaration" ->
           LET e == assign_type(node.expression, table, function_return_value)
           IN IF e.err # "" THEN e ELSE
           LET t1 == e.type
               t2 == convert(node.type_expression)
               name == node.identifier.name
               walked == [node EXCEPT !.expression = e.node,
                                      !.type_expression =
                                          IF t2.err = "" THEN t2.node ELSE @]
           IN IF node.type_expression.kind # "None" /\ t2.err # "" THEN t2
              ELSE IF node.type_expression.kind # "None" /\ ~TypeEq(t1, t2.type)
              THEN Raised("TypeError")
              ELSE IF in_locals(e.table, name) THEN Raised("NameError")
              ELSE Checked(UnitT, walked, add_local(e.table, name, t1))
      [] node.kind = "ReturnExpression" ->
           IF function_return_value # NoFunction
           THEN LET r == assign_type(node.result, table, function_return_value)
                IN IF r.err # "" THEN r
                   ELSE ReturnExpression_result(r.type, function_return_value,
                                                [node EXCEPT !.result = r.node], r.table)
           ELSE Raised("SyntaxError")
      [] node.kind = "FuncExpression" ->
           LET name == node.identifier.name
               func_type == get_value(table, name)
           IN IF ~IsBound(table, name) THEN Raised("NameError")
              ELSE IF IsFunType(func_type)
              THEN LET a == check_sequence(node.args, 1, table, function_return_value,
                                           <<>>, <<>>)
                   IN IF a.err # "" THEN Raised(a.err)
                      ELSE IF first_mismatch(func_type.params, a.types, 1) # 0
                      THEN Raised("TypeError")
                      ELSE Checked(func_type.return_type, [node EXCEPT !.args = a.nodes],
                                   a.table)
              ELSE Checked(UnitT, node, table)
      [] OTHER -> Checked(UnitT, node, table)

\* process_function_params: the parameter scope and the parameter types.
RECURSIVE process_function_params(_, _, _, _, _)
process_function_params(params, i, locals, p_types, done) ==
    IF i > Len(params)
    THEN [err |-> "", locals |-> locals, p_types |-> p_types, params |-> done]
    ELSE LET c == convert(params[i].type_expression)
         IN IF c.err # "" THEN [err |-> c.err, locals |-> locals, p_types |-> p_types,
                                params |-> done]
            ELSE process_function_params(
                     params, i + 1,
                     MapSet(locals, params[i].name, c.type),
                     Append(p_types, c.type),
                     Append(done, [params[i] EXCEPT !.type_expression = c.node]))

\* A faulty variant of already_declared: no name counts as declared.
never_declared(root, name) == FALSE

\* root_table.in_locals(function.name)
already_declared(root, name) == name \in DOMAIN root

\* add_functions_to_tables: the first sweep.  root is the root scope,
\* function_tables maps a function name to its parameter scope.
RECURSIVE add_functions_to_tables(_, _, _, _, _)
add_functions_to_tables(functions, i, root, function_tables, done) ==
    IF i > Len(functions)
    THEN [err |-> "", root |-> root, function_tables |-> function_tables,
          functions |-> done]
    ELSE LET function == functions[i]
             failed(e) == [err |-> e, root |-> root,
                           function_tables |-> function_tables, functions |-> done]
         IN IF already_declared(root, function.name) THEN failed("NameError") ELSE
            LET p == process_function_params(function.params, 1, EmptyMap, <<>>, <<>>)
            IN IF p.err # "" THEN failed(p.err) ELSE
            LET return_type == convert(function.type_expression)
            IN IF return_type.err # "" THEN failed(return_type.err) ELSE
            LET fun_type == FunType("function", p.p_types, return_type.type,
                                    function.name)
            IN add_functions_to_tables(
                   functions, i + 1,
                   MapSet(root, function.name, fun_type),
                   MapSet(function_tables, function.name, p.locals),
                   Append(done, [function EXCEPT
                                    !.params = p.params,
                                    !.type_expression = return_type.node]))

\* type_check_functions, after one function body: b is the checked body
RECURSIVE type_check_functions(_, _, _, _, _)
type_check_function_end(functions, i, root, function_tables, done, b) ==
    IF b.err # "" THEN [err |-> b.err, functions |-> done]
    ELSE type_check_functions(
             functions, i + 1, root, function_tables,
             Append(done, [functions[i] EXCEPT !.body = b.node,
                                               !.type = root[functions[i].name]]))

\* type_check_functions: the second sweep, over the registered functions.
type_check_functions(functions, i, root, function_tables, done) ==
    IF i > Len(functions) THEN [err |-> "", functions |-> done]
    ELSE type_check_function_end(
             functions, i, root, function_tables, done,
             assign_type(functions[i].body,
                         <<root, function_tables[functions[i].name]>>,
                         convert(functions[i].type_expression).type))

\* The indices of the elements of seq of the given kind, in order.
RECURSIVE select_indices(_, _, _)
select_indices(seq, i, kind) ==
    IF i > Len(seq) THEN <<>>
    ELSE (IF seq[i].kind = kind THEN <<i>> ELSE <<>>) \o select_indices(seq, i + 1, kind)

typecheck_failed(root_node, err) ==
    [err |-> err, type |-> UnitT, root_table |-> root_table, root_node |-> root_node]

\* typecheck of a Module, the last line: r is the checked root expression
typecheck_module_end(root_node, idx, root, functions, r) ==
    IF r.err # "" THEN typecheck_failed(root_node, r.err)
    ELSE [err |-> "", type |-> r.type, root_table |-> root,
          root_node |->
             [root_node EXCEPT !.body =
                 [j \in 1..Len(root_node.body) |->
                     IF root_node.body[j].kind = "FuncDef"
                     THEN functions[CHOOSE k \in 1..Len(idx) : idx[k] = j]
                     ELSE IF j = Len(root_node.body) THEN r.node
                     ELSE root_node.body[j]]]]

\* init_typechecker after the two sweeps: checked is the second sweep's
\* result
typecheck_module_expression(root_node, idx, root, checked) ==
    IF checked.err # "" THEN typecheck_failed(root_node, checked.err)
    ELSE IF Len(root_node.body) = 0 THEN typecheck_failed(root_node, "IndexError")
    ELSE typecheck_module_end(
             root_node, idx, root, checked.functions,
             assign_type(IF IsExpression(root_node.body[Len(root_node.body)])
                         THEN root_node.body[Len(root_node.body)] ELSE None,
                         <<root, EmptyMap>>, NoFunction))

\* init_typechecker after the first sweep: added is its result
typecheck_module_functions(root_node, idx, added) ==
    IF added.err # "" THEN typecheck_failed(root_node, added.err)
    ELSE typecheck_module_expression(
             root_node, idx, added.root,
             type_check_functions(added.functions, 1, added.root, added.function_tables,
                                  <<>>))

typecheck_expression_end(root_node, r) ==
    IF r.err # "" THEN typecheck_failed(root_node, r.err)
    ELSE [err |-> "", type |-> r.type, root_table |-> root_table, root_node |-> r.node]

\* typecheck(root_node): err, the type of the root expression, the root
\* scope and the root node with every type written.
typecheck(root_node) ==
    IF root_node.kind = "Module"
    THEN LET idx == select_indices(root_node.body, 1, "FuncDef")
             functions == [k \in 1..Len(idx) |-> root_node.body[idx[k]]]
         IN typecheck_module_functions(
                root_node, idx,
                add_functions_to_tables(functions, 1, root_table, EmptyMap, <<>>))
    ELSE typecheck_expression_end(
             root_node, assign_type(root_node, <<root_table, EmptyMap>>, NoFunction))

(***************************************************************************)
(* ir.py: IR variables are their names; instructions are records.          *)
(***************************************************************************)
Label(loc, name) == [op |-> "Label", loc |-> loc, name |-> name]
LoadBoolConst(loc, value, dest) ==
    [op |-> "LoadBoolConst", loc |-> loc, value |-> value, dest |-> dest]
LoadIntConst(loc, value, dest) ==
    [op |-> "LoadIntConst", loc |-> loc, value |-> value, dest |-> dest]
Copy(loc, source, dest) == [op |-> "Copy", loc |-> loc, source |-> source, dest |-> dest]
Call(loc, fun, args, dest) ==
    [op |-> "Call", loc |-> loc, fun |-> fun, args |-> args, dest |-> dest]
Jump(loc, label) == [op |-> "Jump", loc |-> loc, label |-> label]
CondJump(loc, cond, then_label, else_label) ==
    [op |-> "CondJump", loc |-> loc, cond |-> cond, then_label |-> then_label,
     else_label |-> else_label]
Return(loc, result) == [op |-> "Return", loc |-> loc, result |-> result]
IrFunctionDef(loc, name, args) ==
    [op |-> "FunctionDef", loc |-> loc, name |-> name, args |-> args]

(***************************************************************************)
(* ir_generator.py: generate_ir_body.  The closure state of one call is    *)
(* the record g: ins, var_types, the generator's next index i,             *)
(* new_var_count, ir_labels_adjust, loop_depth, the scope chain st, and    *)
(* the values the last helper returned (var, label).                       *)
(***************************************************************************)
var_unit == "unit"

Emit(g, instruction) == [g EXCEPT !.ins = Append(@, instruction)]
Raise(g, err) == [g EXCEPT !.err = err]

\* ir_var_generator: the name of the i-th variable
ir_var_name(prefix, i) == prefix \o ToString(i)

\* A faulty variant of next_free: the type map is not consulted.
next_free_unchecked(i, var_types) == i

RECURSIVE next_free(_, _)
next_free(i, var_types) ==
    IF ir_var_name("x", i) \in DOMAIN var_types THEN next_free(i + 1, var_types) ELSE i

new_var(g, t) ==
    LET k == next_free(g.i, g.var_types)
        variable == ir_var_name("x", k)
    IN [g EXCEPT !.i = k + 1,
                 !.new_var_count = @ + (k + 1 - g.i),
                 !.var_types = MapSet(@, variable, t),
                 !.var = variable]

\* A faulty variant of suffixed_label: the count is not appended.
unsuffixed_label(name, count) == name

\* the name new_label gives on a request for a base requested count times
\* before
suffixed_label(name, count) == IF count = 0 THEN name ELSE name \o ToString(count + 1)

new_label(g, name) ==
    LET count == IF name \in DOMAIN g.ir_labels_adjust THEN g.ir_labels_adjust[name]
                 ELSE 0
    IN [g EXCEPT !.ir_labels_adjust = MapSet(@, name, count + 1),
                 !.label = Label(g.root_loc, suffixed_label(name, count))]

\* A faulty variant of break_continue_label: depth 1 is suffixed like the
\* deeper ones.
break_continue_label_suffixed(name, loop_depth) ==
    (IF name = "continue" THEN "while_start" ELSE "while_end") \o ToString(loop_depth)

\* the label name a break or continue jumps to
break_continue_label(name, loop_depth) ==
    LET start_end == IF name = "continue" THEN "while_start" ELSE "while_end"
    IN IF loop_depth = 1 THEN start_end ELSE start_end \o ToString(loop_depth)

RECURSIVE visit(_, _), visit_sequence(_, _, _, _)

returned(g, var) == [g EXCEPT !.var = var]

\* visit over body[i..] in the scope chain of g; vars collects the results.
visit_sequence(g, body, i, vars) ==
    IF i > Len(body) \/ g.err # "" THEN [g EXCEPT !.vars = vars]
    ELSE visit_sequence(visit(g, body[i]), body, i + 1,
                        Append(vars, visit(g, body[i]).var))

\* case ast.Literal()
visit_Literal(g, expr) ==
    IF expr.value.py = "bool"
    THEN Emit(new_var(g, BoolT),
              LoadBoolConst(expr.loc, expr.value.b, new_var(g, BoolT).var))
    ELSE IF expr.value.py = "int"
    THEN Emit(new_var(g, IntT),
              LoadIntConst(expr.loc, expr.value, new_var(g, IntT).var))
    ELSE returned(g, var_unit)

\* case ast.Identifier()
visit_Identifier(g, expr) ==
    IF IsBound(g.st, expr.name) THEN returned(g, get_value(g.st, expr.name))
    ELSE Raise(g, "NameError")

\* BinaryOp "=": r is the state after the right operand
visit_assignment(r, expr, var_left) ==
    IF r.err # "" THEN r
    ELSE returned(Emit(r, Copy(expr.loc, r.var, var_left)), var_left)

\* BinaryOp and/or, from the right operand's value on: r is the state
\* after the right operand
visit_and_or_result(r, expr, l_skip, l_end) ==
    IF r.err # "" THEN r
    ELSE LET var_right == r.var
             var_result == new_var(r, BoolT).var
             short_circuit_result == IF expr.op = "and" THEN FALSE ELSE TRUE
             code == <<Copy(expr.loc, var_right, var_result),
                       Jump(expr.loc, l_end),
                       l_skip,
                       LoadBoolConst(expr.loc, short_circuit_result, var_result),
                       Jump(expr.loc, l_end),
                       l_end>>
         IN returned([new_var(r, BoolT) EXCEPT !.ins = @ \o code], var_result)

\* a variant of visit_and_or that evaluates the right operand on the
\* other value of the left one
visit_and_or_swapped(l, expr) ==
    LET var_left == l.var
        prefix == IF expr.op = "and" THEN "and" ELSE "or"
        g1 == new_label(l, prefix \o "_right")
        l_right == g1.label
        g2 == new_label(g1, prefix \o "_skip")
        l_skip == g2.label
        g3 == new_label(g2, prefix \o "_end")
        l_end == g3.label
        jump == IF prefix = "and" THEN CondJump(expr.loc, var_left, l_skip, l_right)
                ELSE CondJump(expr.loc, var_left, l_right, l_skip)
    IN visit_and_or_result(visit(Emit(Emit(g3, jump), l_right), expr.right),
                           expr, l_skip, l_end)

\* BinaryOp and/or: l is the state after the left operand
visit_and_or(l, expr) ==
    LET var_left == l.var
        prefix == IF expr.op = "and" THEN "and" ELSE "or"
        g1 == new_label(l, prefix \o "_right")
        l_right == g1.label
        g2 == new_label(g1, prefix \o "_skip")
        l_skip == g2.label
        g3 == new_label(g2, prefix \o "_end")
        l_end == g3.label
        jump == IF prefix = "and" THEN CondJump(expr.loc, var_left, l_right, l_skip)
                ELSE CondJump(expr.loc, var_left, l_skip, l_right)
    IN visit_and_or_result(visit(Emit(Emit(g3, jump), l_right), expr.right),
                           expr, l_skip, l_end)

\* other binary operators: r is the state after the right operand
visit_operator_call(r, expr, var_op, var_left) ==
    IF r.err # "" THEN r
    ELSE Emit(new_var(r, expr.type),
              Call(expr.loc, var_op, <<var_left, r.var>>, new_var(r, expr.type).var))

\* case ast.BinaryOp(): l is the state after the left operand
visit_BinaryOp(l, expr) ==
    IF l.err # "" THEN l
    ELSE IF expr.op = "=" THEN visit_assignment(visit(l, expr.right), expr, l.var)
    ELSE IF expr.op \in {"and", "or"} THEN visit_and_or(l, expr)
    ELSE IF ~IsBound(l.st, expr.op) THEN Raise(l, "NameError")
    ELSE visit_operator_call(visit(l, expr.right), expr, get_value(l.st, expr.op), l.var)

\* case ast.UnaryOp(): e is the state after the operand
visit_UnaryOp(e, expr, unary_op) ==
    IF e.err # "" THEN e
    ELSE Emit(new_var(e, expr.type),
              Call(expr.loc, unary_op, <<e.var>>, new_var(e, expr.type).var))

\* WhileExpression, after the body: b is the state after the body
visit_While_end(b, expr, l_while_start, l_while_end) ==
    IF b.err # "" THEN b
    ELSE returned([b EXCEPT !.ins = @ \o <<Jump(expr.loc, l_while_start), l_while_end>>,
                            !.loop_depth = @ - 1],
                  var_unit)

\* WhileExpression, from the condition's value on: c is the state after
\* the condition
visit_While_body(c, expr, l_while_start, l_while_body, l_while_end) ==
    IF c.err # "" THEN c
    ELSE visit_While_end(
             visit([c EXCEPT !.ins = @ \o <<CondJump(expr.loc, c.var, l_while_body,
                                                     l_while_end),
                                            l_while_body>>,
                             !.loop_depth = @ + 1],
                   expr.body),
             expr, l_while_start, l_while_end)

\* case ast.WhileExpression()
visit_While(g, expr) ==
    LET g1 == new_label(g, "while_start")
        l_while_start == g1.label
        g2 == new_label(g1, "while_body")
        l_while_body == g2.label
        g3 == new_label(g2, "while_end")
        l_while_end == g3.label
    IN visit_While_body(visit(Emit(g3, l_while_start), expr.condition),
                        expr, l_while_start, l_while_body, l_while_end)

\* case ast.BreakExpression() | ast.ContinueExpression()
visit_Break_Continue(g, expr) ==
    IF g.loop_depth > 0
    THEN returned(Emit(g, Jump(expr.loc,
                               Label(expr.loc,
                                     break_continue_label(expr.name, g.loop_depth)))),
                  var_unit)
    ELSE Raise(g, "SyntaxError")

\* IfExpression without else, after the then clause
visit_If_then_end(t, l_if_end) ==
    IF t.err # "" THEN t ELSE returned(Emit(t, l_if_end), var_unit)

\* IfExpression with else, after the else clause
visit_If_else_end(e, expr, copy_var, l_if_end) ==
    IF e.err # "" THEN e
    ELSE LET else_var == IF e.var = "unit" THEN "Unit" ELSE e.var
         IN returned([e EXCEPT !.ins = @ \o <<Copy(expr.loc, else_var, copy_var),
                                              l_if_end>>],
                     copy_var)

\* IfExpression with else, after the then clause
visit_If_else(t, expr, copy_var, l_else, l_if_end) ==
    IF t.err # "" THEN t
    ELSE LET then_var == IF t.var = "unit" THEN "Unit" ELSE t.var
         IN visit_If_else_end(
                visit([t EXCEPT !.ins = @ \o <<Copy(expr.loc, then_var, copy_var),
                                               Jump(expr.loc, l_if_end),
                                               l_else>>],
                      expr.else_clause),
                expr, copy_var, l_if_end)

\* IfExpression with else: g4 is the state after the CondJump
visit_If_then(g4, expr, l_then, l_else, l_if_end) ==
    LET g5 == IF TypeEq(expr.type, BoolT) THEN new_var(g4, BoolT)
              ELSE IF TypeEq(expr.type, IntT) THEN new_var(g4, IntT)
              ELSE new_var(g4, UnitT)
    IN visit_If_else(visit(Emit(g5, l_then), expr.then_clause),
                     expr, g5.var, l_else, l_if_end)

\* case ast.IfExpression(), from the condition's value on: c is the state
\* after the condition
visit_If_branches(c, expr, l_then) ==
    IF c.err # "" THEN c
    ELSE IF expr.else_clause.kind = "None"
    THEN LET g2 == new_label(c, "if_end")
             l_if_end == g2.label
         IN visit_If_then_end(
                visit([g2 EXCEPT !.ins = @ \o <<CondJump(expr.loc, c.var, l_then,
                                                         l_if_end),
                                                l_then>>],
                      expr.then_clause),
                l_if_end)
    ELSE LET g2 == new_label(c, "else")
             l_else == g2.label
             g3 == new_label(g2, "if_end")
             l_if_end == g3.label
         IN visit_If_then(Emit(g3, CondJump(expr.loc, c.var, l_then, l_else)),
                          expr, l_then, l_else, l_if_end)

\* case ast.BlockExpression(): b is the state after the statements, depth
\* the length of the enclosing scope chain
visit_Block_end(b, depth) ==
    IF b.err # "" THEN b
    ELSE returned([b EXCEPT !.st = SubSeq(@, 1, depth)],
                  IF Len(b.vars) = 0 THEN var_unit ELSE b.vars[Len(b.vars)])

\* case ast.Declaration(): e is the state after the initializer
visit_Declaration(e, expr) ==
    IF e.err # "" THEN e
    ELSE LET dec_value == e.var
             v == new_var(e, expr.expression.type)
             dec_variable == v.var
         IN returned([v EXCEPT !.ins = Append(@, Copy(expr.loc, dec_value, dec_variable)),
                               !.st = add_local(@, expr.identifier.name, dec_variable)],
                     var_unit)

\* case ast.ReturnExpression() with a result: r is the state after it
visit_Return(r, expr) ==
    IF r.err # "" THEN r ELSE returned(Emit(r, Return(expr.loc, r.var)), var_unit)

\* case ast.FuncExpression(): a is the state after the arguments
visit_FuncExpression(a, expr) ==
    IF a.err # "" THEN a
    ELSE IF ~IsBound(a.st, expr.identifier.name) THEN Raise(a, "NameError")
    ELSE LET func_vars == a.vars
             func == get_value(a.st, expr.identifier.name)
         IN IF func \notin DOMAIN a.var_types THEN Raise(a, "KeyError")
            ELSE Emit(new_var(a, a.var_types[func]),
                      Call(expr.loc, func, func_vars, new_var(a, a.var_types[func]).var))

visit(g, expr) ==
    CASE g.err # "" -> g
      [] expr.kind = "Literal" -> visit_Literal(g, expr)
      [] expr.kind = "Identifier" -> visit_Identifier(g, expr)
      [] expr.kind = "BinaryOp" -> visit_BinaryOp(visit(g, expr.left), expr)
      [] expr.kind = "UnaryOp" ->
           IF ~IsBound(g.st, "unary_" \o expr.op) THEN Raise(g, "NameError")
           ELSE visit_UnaryOp(visit(g, expr.expression), expr,
                              get_value(g.st, "unary_" \o expr.op))
      [] expr.kind = "WhileExpression" -> visit_While(g, expr)
      [] expr.kind \in {"BreakExpression", "ContinueExpression"} ->
           visit_Break_Continue(g, expr)
      [] expr.kind = "IfExpression" ->
           visit_If_branches(visit(new_label(g, "then"), expr.if_condition), expr,
                             new_label(g, "then").label)
      [] expr.kind = "BlockExpression" ->
           visit_Block_end(visit_sequence([g EXCEPT !.st = child(@)], expr.body, 1, <<>>),
                           Len(g.st))
      [] expr.kind = "Declaration" -> visit_Declaration(visit(g, expr.expression), expr)
      [] expr.kind = "ReturnExpression" ->
           IF expr.result.kind # "None" THEN visit_Return(visit(g, expr.result), expr)
           ELSE returned(Emit(g, Return(expr.loc, var_unit)), var_unit)
      [] expr.kind = "FuncExpression" ->
           visit_FuncExpression(visit_sequence(g, expr.args, 1, <<>>), expr)
      [] OTHER -> Raise(g, "Exception")

\* a variant of print_result that passes the unit variable to the print
\* function
print_result_of_unit(v, loc, print_function, t) ==
    Emit(new_var(v, t),
         Call(loc, get_value(v.st, print_function), <<var_unit>>, new_var(v, t).var))

\* the call of print_int or print_bool that ends main
print_result(v, loc, print_function, t) ==
    Emit(new_var(v, t),
         Call(loc, get_value(v.st, print_function), <<v.var>>, new_var(v, t).var))

\* generate_ir_body, after the visit of the root expression: v is the
\* state it returned, v.var is var_final_result
generate_ir_body_end(v, root_expr, is_function) ==
    IF v.err # "" THEN v
    ELSE IF is_function
    THEN IF v.ins[Len(v.ins)].op # "Return"
         THEN Emit(v, Return(root_expr.loc, var_unit)) ELSE v
    ELSE IF v.var \notin DOMAIN v.var_types THEN Raise(v, "KeyError")
    ELSE IF TypeEq(v.var_types[v.var], IntT)
    THEN Emit(print_result(v, root_expr.loc, "print_int", IntT),
              Return(root_expr.loc, var_unit))
    ELSE IF TypeEq(v.var_types[v.var], BoolT)
    THEN Emit(print_result(v, root_expr.loc, "print_bool", BoolT),
              Return(root_expr.loc, var_unit))
    ELSE Emit(v, Return(root_expr.loc, var_unit))

\* generate_ir_body, before the visit of the root expression: the closure
\* state with the label start emitted
generate_ir_body_start(root_types, root_expr, ins) ==
    LET g0 == [err |-> "", ins |-> ins,
               var_types |-> MapSet(root_types, var_unit, UnitT),
               i |-> 1, new_var_count |-> 0, ir_labels_adjust |-> EmptyMap,
               loop_depth |-> 0,
               st |-> <<[v \in DOMAIN root_types |-> v]>>,
               root_loc |-> root_expr.loc,
               var |-> var_unit, vars |-> <<>>, label |-> Label(<<>>, "")]
    IN Emit(new_label(g0, "start"), new_label(g0, "start").label)

\* generate_ir_body(root_types, root_expr, ins, is_function): err and the
\* finished instruction list ins, with the closure state for inspection.
generate_ir_body(root_types, root_expr, ins, is_function) ==
    generate_ir_body_end(visit(generate_ir_body_start(root_types, root_expr, ins), root_expr),
                         root_expr, is_function)

\* instructions[name] = ir_list on the insertion-ordered dict
DictSet(dict, name, ir_list) ==
    [keys |-> IF name \in DOMAIN dict.lists THEN dict.keys ELSE Append(dict.keys, name),
     lists |-> MapSet(dict.lists, name, ir_list)]

EmptyDict == [keys |-> <<>>, lists |-> EmptyMap]

RECURSIVE param_types(_, _, _)
param_types(params, i, function_types) ==
    IF i > Len(params) THEN function_types
    ELSE param_types(params, i + 1,
                     MapSet(function_types, params[i].name,
                            params[i].type_expression.type))

\* add_instructions, after generate_ir_body: b is its result
RECURSIVE generate_ir_nodes(_, _, _, _)
add_instructions(root_types, body, i, instructions, name, b) ==
    IF b.err # "" THEN [err |-> b.err, instructions |-> instructions]
    ELSE generate_ir_nodes(root_types, body, i + 1, DictSet(instructions, name, b.ins))

\* the loop of generate_ir over the body of a Module
generate_ir_nodes(root_types, body, i, instructions) ==
    IF i > Len(body) THEN [err |-> "", instructions |-> instructions]
    ELSE IF body[i].kind = "FuncDef"
    THEN add_instructions(
             root_types, body, i, instructions, body[i].name,
             generate_ir_body(
                 param_types(body[i].params, 1, root_types), body[i].body,
                 <<IrFunctionDef(body[i].loc, body[i].name,
                                 [k \in 1..Len(body[i].params) |-> body[i].params[k].name])>>,
                 TRUE))
    ELSE add_instructions(
             root_types, body, i, instructions, "main",
             generate_ir_body(root_types, body[i],
                              <<IrFunctionDef(body[i].loc, "main", <<>>)>>, FALSE))

generate_ir(root_types, root_node) ==
    IF root_node.kind = "Module"
    THEN generate_ir_nodes(root_types, root_node.body, 1, EmptyDict)
    ELSE add_instructions(
             root_types, <<>>, 1, EmptyDict, "main",
             generate_ir_body(root_types, root_node,
                              <<IrFunctionDef(root_node.loc, "main", <<>>)>>, FALSE))

(***************************************************************************)
(* utilities.py                                                            *)
(***************************************************************************)
extract_root_types(st) ==
    [name \in {n \in DOMAIN st : IsFunType(st[n])} |-> st[name].return_type]

(***************************************************************************)
(* Source locations.  The parser gives every node the location of one of   *)
(* its own tokens; here a node's location is its path from the root, which *)
(* likewise tells the nodes of one tree apart.                             *)
(***************************************************************************)
RECURSIVE Locate(_, _)
Locate(node, path) ==
    LET sub(field, k) == Locate(field, Append(path, k))
        each(seq) == [k \in 1..Len(seq) |-> Locate(seq[k], Append(path, k))]
        here == IF node.kind = "None" THEN node ELSE [node EXCEPT !.loc = path]
    IN CASE node.kind = "BinaryOp" ->
              [here EXCEPT !.left = sub(node.left, 1), !.right = sub(node.right, 2)]
         [] node.kind = "UnaryOp" -> [here EXCEPT !.expression = sub(node.expression, 1)]
         [] node.kind = "IfExpression" ->
              [here EXCEPT !.if_condition = sub(node.if_condition, 1),
                           !.then_clause = sub(node.then_clause, 2),
                           !.else_clause = sub(node.else_clause, 3)]
         [] node.kind = "WhileExpression" ->
              [here EXCEPT !.condition = sub(node.condition, 1),
                           !.body = sub(node.body, 2)]
         [] node.kind = "FuncExpression" ->
              [here EXCEPT !.identifier = sub(node.identifier, 0),
                           !.args = each(node.args)]
         [] node.kind = "BlockExpression" -> [here EXCEPT !.body = each(node.body)]
         [] node.kind = "ReturnExpression" -> [here EXCEPT !.result = sub(node.result, 1)]
         [] node.kind = "Declaration" ->
              [here EXCEPT !.identifier = sub(node.identifier, 0),
                           !.expression = sub(node.expression, 1),
                           !.type_expression = sub(node.type_expression, 2)]
         [] node.kind = "FuncDef" ->
              [here EXCEPT !.params = each(node.params),
                           !.body = sub(node.body, 0),
                           !.type_expression = sub(node.type_expression, 7)]
         [] node.kind = "FuncParam" ->
              [here EXCEPT !.type_expression = sub(node.type_expression, 1)]
         [] node.kind = "Module" -> [here EXCEPT !.body = each(node.body)]
         [] OTHER -> here

(***************************************************************************)
(* assembly_generator.py.  An emitted line is a mnemonic with up to two    *)
(* operands; an operand is an immediate, a register, a stack slot          *)
(* n(%rbp) or a symbol.                                                    *)
(***************************************************************************)
Imm(n) == [k |-> "imm", n |-> n, s |-> ""]
Reg(r) == [k |-> "reg", n |-> 0, s |-> r]
Mem(offset) == [k |-> "mem", n |-> offset, s |-> "%rbp"]
Sym(name) == [k |-> "sym", n |-> 0, s |-> name]
NoOperand == [k |-> "", n |-> 0, s |-> ""]
Line(mn, a, b) == [mn |-> mn, a |-> a, b |-> b]
Line1(mn, a) == Line(mn, a, NoOperand)
Line0(mn) == Line(mn, NoOperand, NoOperand)

call_registers == <<"%rdi", "%rsi", "%rdx", "%rcx", "%r8", "%r9">>

\* Locals: variable -> offset of its slot, and the number of slots
Locals(variables) ==
    [var_to_location |->
         [v \in {variables[i] : i \in 1..Len(variables)} |->
             -(8 * (CHOOSE i \in 1..Len(variables) : variables[i] = v))],
     stack_used |-> Len(variables)]

locals_in_locals(local_vars, v) == v \in DOMAIN local_vars.var_to_location

\* the IRVar-valued fields of an instruction, in field order (lists flattened)
ir_variables(ins) ==
    CASE ins.op \in {"LoadBoolConst", "LoadIntConst"} -> <<ins.dest>>
      [] ins.op = "Copy" -> <<ins.source, ins.dest>>
      [] ins.op = "Call" -> <<ins.fun>> \o ins.args \o <<ins.dest>>
      [] ins.op = "CondJump" -> <<ins.cond>>
      [] ins.op = "Return" -> <<ins.result>>
      [] ins.op = "FunctionDef" -> ins.args
      [] OTHER -> <<>>

builtin_names ==
    {"print_int", "print_bool", "read_int", "+", "-", "*", "/", "%", "<", "<=", ">", ">=",
     "==", "!=", "unary_-", "unary_not"}

\* add(val) over a sequence of values; acc is the pair (result_list,
\* result_set)
RECURSIVE add_all(_, _, _)
add_all(values, i, acc) ==
    IF i > Len(values) THEN acc
    ELSE IF values[i] \notin acc.result_set /\ values[i] # "unit"
    THEN add_all(values, i + 1,
                 [result_list |-> Append(acc.result_list, values[i]),
                  result_set |-> acc.result_set \cup {values[i]}])
    ELSE add_all(values, i + 1, acc)

\* the values the loops over instructions[1:] and their fields hand to
\* add, in order
RECURSIVE collect_ir_variables(_, _)
collect_ir_variables(instructions, i) ==
    IF i > Len(instructions) THEN <<>>
    ELSE ir_variables(instructions[i]) \o collect_ir_variables(instructions, i + 1)

get_all_ir_variables(instructions, reserved) ==
    add_all(collect_ir_variables(instructions, 2), 1,
            [result_list |-> <<>>,
             result_set |-> builtin_names \cup reserved]).result_list

\* A faulty variant of stack_not_aligned: the slot count is not scaled to
\* bytes.
slots_not_aligned(stack_used) == stack_used % 16 # 0

\* whether the emitter pads the stack around a call
stack_not_aligned(stack_used) == (stack_used * 8) % 16 # 0

\* the operand of the prologue's subq: stack_used * 8 or 8
frame_size(stack_used) == IF stack_used * 8 # 0 THEN stack_used * 8 ELSE 8

\* intrinsics.py (all_intrinsics): the inline code of an operator, leaving
\* its result in %rax
all_intrinsics ==
    {"+", "-", "*", "/", "%", "<", "<=", ">", ">=", "==", "!=", "unary_-", "unary_not"}

intrinsic_lines(name, args) ==
    LET rax == Reg("%rax")
        rdx == Reg("%rdx")
        compare(setcc) == <<Line("xor", rax, rax), Line("movq", args[1], rdx),
                            Line("cmpq", args[2], rdx), Line1(setcc, Reg("%al"))>>
    IN CASE name = "+" -> <<Line("movq", args[1], rax), Line("addq", args[2], rax)>>
         [] name = "-" -> <<Line("movq", args[1], rax), Line("subq", args[2], rax)>>
         [] name = "*" -> <<Line("movq", args[1], rax), Line("imulq", args[2], rax)>>
         [] name = "/" -> <<Line("movq", args[1], rax), Line0("cqto"),
                            Line1("idivq", args[2])>>
         [] name = "%" -> <<Line("movq", args[1], rax), Line0("cqto"),
                            Line1("idivq", args[2]), Line("movq", rdx, rax)>>
         [] name = "<" -> compare("setl")
         [] name = "<=" -> compare("setle")
         [] name = ">" -> compare("setg")
         [] name = ">=" -> compare("setge")
         [] name = "==" -> compare("sete")
         [] name = "!=" -> compare("setne")
         [] name = "unary_-" -> <<Line("movq", args[1], rax), Line1("negq", rax)>>
         [] name = "unary_not" -> <<Line("movq", args[1], rax),
                                    Line("xorq", Imm(1), rax)>>

local_label(func, name) == ".L" \o func \o "_" \o name

\* the immediate operand of an integer constant
ImmInt(value) == [k |-> "imm", n |-> value.n, s |-> "", carry |-> value.carry]

\* a variant of the range test that admits 2^31
fits_up_to_2_31(value) ==
    IF value.carry > 0 THEN value.n <= 2147483647 - value.carry + 1
    ELSE IF value.carry < 0 THEN value.n >= (-2147483647 - 1) - value.carry
    ELSE TRUE

\* -2 ** 31 <= ins.value < 2 ** 31, for the value n + carry
fits_signed_32(value) ==
    IF value.carry > 0 THEN value.n <= 2147483647 - value.carry
    ELSE IF value.carry < 0 THEN value.n >= (-2147483647 - 1) - value.carry
    ELSE TRUE

\* the lines emitted for one instruction; err is "KeyError" when get_ref
\* is asked for a variable without a slot
emit_instruction(ins, func, local_vars) ==
    LET has(v) == locals_in_locals(local_vars, v)
        get_ref(v) == Mem(local_vars.var_to_location[v])
        ok(lines) == [err |-> "", lines |-> lines]
        KeyError == [err |-> "KeyError", lines |-> <<>>]
        rax == Reg("%rax")
    IN CASE ins.op = "Label" -> ok(<<Line1("label", Sym(local_label(func, ins.name)))>>)
         [] ins.op = "LoadIntConst" ->
              IF ~has(ins.dest) THEN KeyError
              ELSE IF fits_signed_32(ins.value)
              THEN ok(<<Line("movq", ImmInt(ins.value), get_ref(ins.dest))>>)
              ELSE ok(<<Line("movabsq", ImmInt(ins.value), rax),
                        Line("movq", rax, get_ref(ins.dest))>>)
         [] ins.op = "LoadBoolConst" ->
              IF ~has(ins.dest) THEN KeyError
              ELSE ok(<<Line("movq", Imm(IF ins.value THEN 1 ELSE 0), get_ref(ins.dest))>>)
         [] ins.op = "Jump" ->
              ok(<<Line1("jmp", Sym(local_label(func, ins.label.name)))>>)
         [] ins.op = "Copy" ->
              IF ~has(ins.source) \/ ~has(ins.dest) THEN KeyError
              ELSE ok(<<Line("movq", get_ref(ins.source), rax),
                        Line("movq", rax, get_ref(ins.dest))>>)
         [] ins.op = "CondJump" ->
              IF ~has(ins.cond) THEN KeyError
              ELSE ok(<<Line("cmpq", Imm(0), get_ref(ins.cond)),
                        Line1("jne", Sym(local_label(func, ins.then_label.name))),
                        Line1("jmp", Sym(local_label(func, ins.else_label.name)))>>)
         [] ins.op = "Call" ->
              IF \E k \in 1..Len(ins.args) : ~has(ins.args[k]) THEN KeyError ELSE
              LET args == [k \in 1..Len(ins.args) |-> get_ref(ins.args[k])]
              IN IF ins.fun \in all_intrinsics
                 THEN IF ~has(ins.dest) THEN KeyError
                      ELSE ok(intrinsic_lines(ins.fun, args)
                              \o <<Line("movq", rax, get_ref(ins.dest))>>)
                 ELSE LET pad == stack_not_aligned(local_vars.stack_used)
                          n == IF Len(args) < Len(call_registers) THEN Len(args)
                               ELSE Len(call_registers)
                      IN IF ~has(ins.dest) THEN KeyError
                         ELSE ok((IF pad THEN <<Line("subq", Imm(8), Reg("%rsp"))>>
                                  ELSE <<>>)
                                 \o [k \in 1..n |->
                                        Line("movq", args[k], Reg(call_registers[k]))]
                                 \o <<Line1("callq", Sym(ins.fun)),
                                      Line("movq", rax, get_ref(ins.dest))>>
                                 \o (IF pad THEN <<Line("addq", Imm(8), Reg("%rsp"))>>
                                     ELSE <<>>))
         [] ins.op = "Return" ->
              ok(<<Line("movq", IF has(ins.result) THEN get_ref(ins.result) ELSE Imm(0),
                        rax),
                   Line("movq", Reg("%rbp"), Reg("%rsp")),
                   Line1("popq", Reg("%rbp")),
                   Line0("ret")>>)
         [] OTHER -> ok(<<>>)

\* the loop over the instructions: e is what the instruction at i emitted
RECURSIVE emit_instructions(_, _, _, _, _)
emit_next(instructions, i, func, local_vars, lines, e) ==
    IF e.err # "" THEN [err |-> e.err, lines |-> lines]
    ELSE emit_instructions(instructions, i + 1, func, local_vars,
                           lines \o <<Line0(""), Line1("#", Sym(instructions[i].op))>>
                                 \o e.lines)

emit_instructions(instructions, i, func, local_vars, lines) ==
    IF i > Len(instructions) THEN [err |-> "", lines |-> lines]
    ELSE emit_next(instructions, i, func, local_vars, lines,
                   emit_instruction(instructions[i], func, local_vars))

\* the prologue's moves of the argument registers into the slots
RECURSIVE prologue_moves(_, _, _)
prologue_moves(args, i, local_vars) ==
    IF i > Len(args) \/ i > Len(call_registers) THEN <<>>
    ELSE (IF locals_in_locals(local_vars, args[i])
          THEN <<Line("movq", Reg(call_registers[i]),
                      Mem(local_vars.var_to_location[args[i]]))>>
          ELSE <<>>) \o prologue_moves(args, i + 1, local_vars)

\* generate_assembly_function from the prologue on
assembly_function_body(instructions, func, local_vars) ==
    LET head == <<Line1("#", Sym(func)), Line1(".global", Sym(func)),
                  Line(".type", Sym(func), Sym("@function")), Line0(""),
                  Line1("function", Sym(func)),
                  Line1("pushq", Reg("%rbp")), Line("movq", Reg("%rsp"), Reg("%rbp"))>>
        moves == IF instructions[1].op = "FunctionDef"
                 THEN prologue_moves(instructions[1].args, 1, local_vars) ELSE <<>>
        frame == <<Line("subq", Imm(frame_size(local_vars.stack_used)), Reg("%rsp"))>>
    IN emit_instructions(instructions, 1, func, local_vars, head \o moves \o frame)

generate_assembly_function(instructions, func, reserved_vars) ==
    assembly_function_body(instructions, func,
                           Locals(get_all_ir_variables(instructions, reserved_vars)))

top_section ==
    <<Line1(".extern", Sym("print_int")), Line1(".extern", Sym("print_bool")),
      Line1(".extern", Sym("read_int")), Line1(".section", Sym(".text"))>>

\* the loop of generate_assembly over the entries of the dict, in order: f
\* is the block of the function at i
RECURSIVE generate_assembly_blocks(_, _, _, _)
generate_assembly_next(instructions_dict, i, reserved_vars, assembly_code, f) ==
    IF f.err # "" THEN [err |-> f.err, assembly_code |-> assembly_code]
    ELSE generate_assembly_blocks(instructions_dict, i + 1, reserved_vars,
                                  Append(assembly_code, f.lines))

generate_assembly_blocks(instructions_dict, i, reserved_vars, assembly_code) ==
    IF i > Len(instructions_dict.keys) THEN [err |-> "", assembly_code |-> assembly_code]
    ELSE generate_assembly_next(
             instructions_dict, i, reserved_vars \cup {instructions_dict.keys[i]},
             assembly_code,
             generate_assembly_function(
                 instructions_dict.lists[instructions_dict.keys[i]],
                 instructions_dict.keys[i],
                 reserved_vars \cup {instructions_dict.keys[i]}))

generate_assembly(instructions_dict) ==
    generate_assembly_blocks(instructions_dict, 1, {}, <<top_section>>)

(***************************************************************************)
(* The programs the pipeline is run on.                                    *)
(***************************************************************************)
MaxLoopNodes == 3
MaxBoolNodes == 3
MaxIntLiteral == 1

LitI(n) == Literal(IntValue(n))
LitB(b) == Literal(BoolValue(b))
LitNone == Literal(NoneValue)

\* Control-flow skeletons with exactly n composite nodes: sequential and
\* nested loops and conditionals around break and continue.
RECURSIVE LoopShapes(_)
LoopShapes(n) ==
    IF n = 0 THEN {BreakExpression, ContinueExpression}
    ELSE {WhileExpression(LitB(TRUE), s) : s \in LoopShapes(n - 1)}
         \cup {IfExpression(LitB(TRUE), s, None) : s \in LoopShapes(n - 1)}
         \cup UNION {{IfExpression(LitB(TRUE), s1, s2) :
                         s1 \in LoopShapes(i), s2 \in LoopShapes(n - 1 - i)} :
                     i \in 0..(n - 1)}
         \cup UNION {{BlockExpression(<<s1, s2>>) :
                         s1 \in LoopShapes(i), s2 \in LoopShapes(n - 1 - i)} :
                     i \in 0..(n - 1)}

LoopPrograms == UNION {LoopShapes(n) : n \in 0..MaxLoopNodes}

\* Boolean expressions with exactly n composite nodes: and, or, if/else.
RECURSIVE BoolShapes(_)
BoolShapes(n) ==
    IF n = 0 THEN {LitB(TRUE)}
    ELSE UNION {{BinaryOp(b1, op, b2) :
                    b1 \in BoolShapes(i), b2 \in BoolShapes(n - 1 - i), op \in {"and", "or"}} :
                i \in 0..(n - 1)}
         \cup UNION {UNION {{IfExpression(b1, b2, b3) :
                               b1 \in BoolShapes(i), b2 \in BoolShapes(j),
                               b3 \in BoolShapes(n - 1 - i - j)} :
                           j \in 0..(n - 1 - i)} :
                     i \in 0..(n - 1)}

BoolPrograms == UNION {BoolShapes(n) : n \in 0..MaxBoolNodes}

\* Conjunctions and disjunctions of operands of either value: literals,
\* negations, and conjunctions and disjunctions of literals.
BoolLiterals == {LitB(TRUE), LitB(FALSE)}

ShortCircuitOperands ==
    BoolLiterals
    \cup {UnaryOp("not", b) : b \in BoolLiterals}
    \cup {BinaryOp(b1, op, b2) : b1 \in BoolLiterals, op \in {"and", "or"}, b2 \in BoolLiterals}

ShortCircuitPrograms ==
    {BinaryOp(l, op, r) :
        l \in ShortCircuitOperands, op \in {"and", "or"}, r \in ShortCircuitOperands}

\* Expressions of every type around a variable x: conditionals with and
\* without else, assignments, comparisons and sums.
Atoms ==
    {LitI(n) : n \in 1..MaxIntLiteral} \cup {LitB(TRUE), LitNone, Identifier("x")}

Conditionals ==
    {IfExpression(c, t, e) :
        c \in {LitB(TRUE), Identifier("x")}, t \in Atoms,
        e \in Atoms \cup {None, BlockExpression(<<>>)}}

BinaryOps == {BinaryOp(l, op, r) : l \in Atoms, op \in {"=", "==", "+"}, r \in Atoms}

NestedConditionals ==
    {IfExpression(LitB(TRUE), t, e) : t \in Conditionals, e \in {None, LitI(1), LitNone}}

TypedExpressions == Atoms \cup Conditionals \cup BinaryOps \cup NestedConditionals

\* Integer literals at both ends of the signed 32-bit range and next to
\* them.
WideLiterals ==
    {Literal(IntValueWide(n, carry)) :
        n \in {2147483647, 2147483646, -2147483647 - 1, -2147483647, 0},
        carry \in {-1, 0, 1}}

\* Loops whose body has a value.
ValuedLoops == {WhileExpression(LitB(TRUE), b) : b \in {LitI(1), LitB(TRUE), LitNone}}

\* Calls of the built-ins with one argument more or less than they take,
\* and a call of a variable.
MiscountedCalls ==
    {FuncExpression(n, args) :
        n \in {"print_int", "print_bool"},
        args \in {<<>>, <<LitI(1)>>, <<LitB(TRUE)>>, <<LitI(1), LitI(1)>>}}
    \cup {BlockExpression(<<Declaration("x", LitI(1), None),
                            FuncExpression("x", <<LitI(1)>>)>>)}

TypedPrograms ==
    TypedExpressions
    \cup WideLiterals
    \cup ValuedLoops
    \cup MiscountedCalls
    \cup {BlockExpression(<<Declaration("x", d, None), e>>) :
             d \in {LitI(1), LitB(TRUE)}, e \in TypedExpressions}

\* Declarations and uses of x and y in a block, in a block nested in it
\* and after the nested block; the outer declarations are integers and the
\* inner ones booleans.
ScopeStatements(d) ==
    {Declaration(n, d, None) : n \in {"x", "y"}} \cup {Identifier("x"), Identifier("y")}

ScopedPrograms ==
    {BlockExpression(<<s1, BlockExpression(<<s2, s3>>), s4>>) :
        s1 \in ScopeStatements(LitI(1)), s2 \in ScopeStatements(LitB(TRUE)),
        s3 \in ScopeStatements(LitB(TRUE)), s4 \in ScopeStatements(LitI(1))}

\* A declaration of a variable, which may bear the name of a type, and
\* after it an annotated declaration; functions with annotated parameters
\* and results.  Foo is no type.
AnnotatedPrograms ==
    {BlockExpression(<<Declaration(v, d1, None), Declaration("z", d2, TypeExpression(a))>>) :
        v \in {"Int", "Bool", "Unit", "Foo"}, d1 \in {LitI(1), LitB(TRUE)},
        d2 \in {LitI(1), LitB(TRUE), LitNone},
        a \in {"Int", "Bool", "Unit", "Foo"}}
    \cup {Module(<<FuncDef("f", <<FuncParam("a", t)>>, BlockExpression(<<>>), rt)>>) :
             t \in {"Int", "Bool", "Foo", "a", "f"},
             rt \in {None} \cup {TypeExpression(n) : n \in {"Unit", "Foo", "a", "f"}}}

\* Modules of one or two functions named f and g, with and without a
\* trailing top-level expression.
Annotations == {None} \cup {TypeExpression(t) : t \in {"Int", "Bool", "Unit"}}

ReturnStatements ==
    {ReturnExpression(e) : e \in {None, LitI(1), LitB(TRUE), LitNone, Identifier("a")}}

Calls ==
    {FuncExpression(n, args) :
        n \in {"f", "g"}, args \in {<<>>, <<LitI(1)>>, <<LitB(TRUE)>>}}

OneFunctionModules ==
    {Module(<<FuncDef("f", params, BlockExpression(<<s>>), rt)>> \o top) :
        params \in {<<>>, <<FuncParam("a", "Int")>>},
        s \in ReturnStatements \cup {FuncExpression("f", <<LitI(1)>>), LitI(1)},
        rt \in Annotations,
        top \in {<<>>, <<LitI(1)>>, <<ReturnExpression(None)>>,
                 <<ReturnExpression(LitI(1))>>, <<FuncExpression("f", <<LitI(1)>>)>>}}

TwoFunctionModules ==
    {Module(<<FuncDef(names[1], <<>>, BlockExpression(<<s1>>), rt1),
              FuncDef(names[2], <<FuncParam("a", "Int")>>, BlockExpression(<<s2>>), rt2)>>
            \o top) :
        names \in {<<"f", "g">>, <<"f", "f">>, <<"f", "print_int">>},
        s1 \in Calls \cup {ReturnExpression(None), ReturnExpression(LitI(1))},
        s2 \in Calls \cup {ReturnExpression(None), ReturnExpression(Identifier("a"))},
        rt1 \in {None, TypeExpression("Int")},
        rt2 \in {None, TypeExpression("Int")},
        top \in {<<>>, <<FuncExpression("g", <<LitI(1)>>)>>}}

\* One function of two parameters that returns the first, the second, their
\* sum or a literal; the first parameter may bear the function's own name.
ParameterModules ==
    {Module(<<FuncDef("f", <<FuncParam(p, "Int"), FuncParam("b", "Int")>>,
                      BlockExpression(<<ReturnExpression(e)>>), TypeExpression("Int"))>>) :
        p \in {"a", "f"},
        e \in {Identifier("a"), Identifier("f"), Identifier("b"), LitI(1),
               BinaryOp(Identifier("a"), "+", Identifier("b")),
               BinaryOp(Identifier("f"), "+", Identifier("b"))}}

\* A function and a parameter named like temporaries, before a top-level
\* expression that needs temporaries of its own.
TemporaryModules ==
    {Module(<<FuncDef(fn, <<FuncParam(p, "Int")>>,
                      BlockExpression(<<ReturnExpression(BinaryOp(Identifier(p), "+", LitI(1)))>>),
                      TypeExpression("Int")),
              e>>) :
        fn \in {"f", "x1", "x3"},
        p \in {"a", "x1", "x2"},
        e \in {LitI(2), BinaryOp(LitI(1), "+", LitI(2)), LitB(TRUE)}}

ModulePrograms ==
    OneFunctionModules \cup TwoFunctionModules \cup ParameterModules \cup TemporaryModules

\* Source texts: up to MaxSegments pieces of white space, comment marks and
\* tokens, written one after the other.
MaxSegments == 4

Segments == {" ", "\n", "#", "//", "/*", "*/", "if", "1", "="}

RECURSIVE Texts(_)
Texts(n) == IF n = 0 THEN {""} ELSE {t \o s : t \in Texts(n - 1), s \in Segments}

LexerSources == UNION {Texts(n) : n \in 0..MaxSegments}

\* Two expressions written one after the other with no ";" between them,
\* in braces and at the top level.
FirstExpressions ==
    {"a", "1", "a + b", "f ( a )", "( a )", "- a", "{ a }", "if a then { b }",
     "while a do { b }"}

SecondExpressions == {"c", "2", "{ c }", "if c then d"}

Braced(e1, e2) == "{ " \o e1 \o " " \o e2 \o " }"

Adjacent(e1, e2) == e1 \o " " \o e2

AdjacentSources ==
    {Braced(e1, e2) : e1 \in FirstExpressions, e2 \in SecondExpressions}
    \cup {Adjacent(e1, e2) : e1 \in FirstExpressions, e2 \in SecondExpressions}

\* Chains of up to MaxOperators binary operators between operands that are
\* all a, all - a or all not a.
MaxOperators == 3

OperatorTexts == {"or", "and", "==", "<", "+", "-", "*", "="}

RECURSIVE Chains(_, _)
Chains(n, operand) ==
    IF n = 0 THEN {operand}
    ELSE {c \o " " \o op \o " " \o operand :
             c \in Chains(n - 1, operand), op \in OperatorTexts}

OperatorSources ==
    UNION {Chains(n, operand) : n \in 1..MaxOperators, operand \in {"a", "- a", "not a"}}

Sources == LexerSources \cup AdjacentSources \cup OperatorSources

Programs ==
    {Locate(p, <<>>) :
        p \in LoopPrograms \cup BoolPrograms \cup ShortCircuitPrograms \cup TypedPrograms
              \cup ScopedPrograms \cup AnnotatedPrograms \cup ModulePrograms}

(***************************************************************************)
(* The pipeline of utilities.source_code_to_assembly, one stage per step.  *)
(***************************************************************************)
VARIABLES source_code, tokens, parsed, root_node, pc, checked, ir, assembly,
          symtab, required

vars == <<source_code, tokens, parsed, root_node, pc, checked, ir, assembly,
          symtab, required>>

NotRun == [err |-> "not run"]

\* The pipeline from the tree on, for the trees of the whole language
\* (parser.py builds no function definitions).
Init ==
    /\ source_code = NotRun
    /\ tokens = NotRun
    /\ parsed = NotRun
    /\ root_node \in Programs
    /\ pc = "parsed"
    /\ checked = NotRun
    /\ ir = NotRun
    /\ assembly = NotRun
    /\ symtab = NotRun
    /\ required = NotRun

\* typecheck(ast_expr): writes the types into the tree
Typecheck ==
    /\ pc = "parsed"
    /\ checked' = typecheck(root_node)
    /\ root_node' = checked'.root_node
    /\ pc' = IF checked'.err = "" THEN "typechecked" ELSE "rejected"
    /\ UNCHANGED <<source_code, tokens, parsed, ir, assembly, symtab, required>>

\* generate_ir(extract_root_types(root_table), ast_expr)
GenerateIr ==
    /\ pc = "typechecked"
    /\ ir' = generate_ir(extract_root_types(checked.root_table), root_node)
    /\ pc' = IF ir'.err = "" THEN "lowered" ELSE "failed"
    /\ UNCHANGED <<source_code, tokens, parsed, root_node, checked, assembly, symtab, required>>

\* generate_assembly(instructions_dict)
GenerateAssembly ==
    /\ pc = "lowered"
    /\ assembly' = generate_assembly(ir.instructions)
    /\ pc' = IF assembly'.err = "" THEN "emitted" ELSE "failed"
    /\ UNCHANGED <<source_code, tokens, parsed, root_node, checked, ir, symtab, required>>

Next == Typecheck \/ GenerateIr \/ GenerateAssembly

Spec == Init /\ [][Next]_vars

\* The front end of parse_code, from the source text on.
FrontEndInit ==
    /\ source_code \in Sources
    /\ tokens = NotRun
    /\ parsed = NotRun
    /\ root_node = NotRun
    /\ pc = "source"
    /\ checked = NotRun
    /\ ir = NotRun
    /\ assembly = NotRun
    /\ symtab = NotRun
    /\ required = NotRun

\* tokenize(code)
Tokenize ==
    /\ pc = "source"
    /\ tokens' = tokenize(source_code)
    /\ pc' = IF tokens'.err = "" THEN "tokenized" ELSE "rejected"
    /\ UNCHANGED <<source_code, parsed, root_node, checked, ir, assembly, symtab, required>>

\* parse(tokens)
Parse ==
    /\ pc = "tokenized"
    /\ parsed' = parse(tokens.tokens)
    /\ root_node' = parsed'.node
    /\ pc' = IF parsed'.err = "" THEN "parsed" ELSE "rejected"
    /\ UNCHANGED <<source_code, tokens, checked, ir, assembly, symtab, required>>

FrontEndNext == Tokenize \/ Parse

FrontEndSpec == FrontEndInit /\ [][FrontEndNext]_vars

\* A symbol table at work: scopes are opened and names bound under values
\* of several Python types, then a name is required.
MaxScopes == 2
Names == {"x", "y"}
Values == {IntValue(0), IntValue(1), BoolValue(FALSE), NoneValue, IntT}

SymTabInit ==
    /\ source_code = NotRun
    /\ tokens = NotRun
    /\ parsed = NotRun
    /\ root_node = NotRun
    /\ pc = "symtab"
    /\ checked = NotRun
    /\ ir = NotRun
    /\ assembly = NotRun
    /\ symtab = <<EmptyMap>>
    /\ required = NotRun

\* SymTab(parent=st)
EnterScope ==
    /\ pc = "symtab"
    /\ Len(symtab) < MaxScopes
    /\ symtab' = child(symtab)
    /\ UNCHANGED <<source_code, tokens, parsed, root_node, pc, checked, ir, assembly,
                   required>>

\* st.add_local(symbol, value)
AddLocal ==
    /\ pc = "symtab"
    /\ \E symbol \in Names, value \in Values :
           symtab' = add_local(symtab, symbol, value)
    /\ UNCHANGED <<source_code, tokens, parsed, root_node, pc, checked, ir, assembly,
                   required>>

\* st.require(symbol)
Require ==
    /\ pc = "symtab"
    /\ \E symbol \in Names :
           required' = [symbol |-> symbol, result |-> require(symtab, symbol)]
    /\ pc' = "required"
    /\ UNCHANGED <<source_code, tokens, parsed, root_node, checked, ir, assembly, symtab>>

SymTabNext == EnterScope \/ AddLocal \/ Require

SymTabSpec == SymTabInit /\ [][SymTabNext]_vars

(***************************************************************************)
(* Reading the tree and the instruction lists of a state.                  *)
(***************************************************************************)
\* the nodes directly below a node
Children(node) ==
    CASE node.kind = "BinaryOp" -> <<node.left, node.right>>
      [] node.kind = "UnaryOp" -> <<node.expression>>
      [] node.kind = "IfExpression" ->
           <<node.if_condition, node.then_clause, node.else_clause>>
      [] node.kind = "WhileExpression" -> <<node.condition, node.body>>
      [] node.kind = "FuncExpression" -> node.args
      [] node.kind = "BlockExpression" -> node.body
      [] node.kind = "ReturnExpression" -> <<node.result>>
      [] node.kind = "Declaration" -> <<node.expression>>
      [] node.kind = "FuncDef" -> <<node.body>>
      [] node.kind = "Module" -> node.body
      [] OTHER -> <<>>

\* the node and every node below it
RECURSIVE SubNodes(_)
SubNodes(node) ==
    IF node.kind = "None" THEN {}
    ELSE {node} \cup UNION {SubNodes(Children(node)[k]) : k \in 1..Len(Children(node))}

NodesOfKind(node, kinds) == {n \in SubNodes(node) : n.kind \in kinds}

\* the while loops whose body holds the node at loc
EnclosingWhiles(root, loc) ==
    {w \in NodesOfKind(root, {"WhileExpression"}) :
        /\ Len(w.loc) < Len(loc)
        /\ SubSeq(loc, 1, Len(w.loc)) = w.loc
        /\ loc[Len(w.loc) + 1] = 2}

\* the innermost of a non-empty set of nested loops
Innermost(whiles) == CHOOSE w \in whiles : \A v \in whiles : Len(v.loc) <= Len(w.loc)

Positions(L, op) == {j \in 1..Len(L) : L[j].op = op}

LabelNames(L) == {L[j].name : j \in Positions(L, "Label")}

JumpTargets(ins) ==
    CASE ins.op = "Jump" -> {ins.label.name}
      [] ins.op = "CondJump" -> {ins.then_label.name, ins.else_label.name}
      [] OTHER -> {}

\* the labels minted for the loop w, read off the loop's own jumps
WhileEndOf(L, w) ==
    {L[j].else_label.name : j \in {k \in Positions(L, "CondJump") : L[k].loc = w.loc}}

WhileStartOf(L, w) ==
    {L[j].label.name : j \in {k \in Positions(L, "Jump") : L[k].loc = w.loc}}

\* the jumps of L emitted for the break and continue expressions of root
BreakContinueJumps(L, root) ==
    {j \in Positions(L, "Jump") :
        \E b \in NodesOfKind(root, {"BreakExpression", "ContinueExpression"}) :
            b.loc = L[j].loc}

\* the label the jump at j of L has to name
InnermostTarget(L, j, root) ==
    IF \E b \in NodesOfKind(root, {"BreakExpression"}) : b.loc = L[j].loc
    THEN WhileEndOf(L, Innermost(EnclosingWhiles(root, L[j].loc)))
    ELSE WhileStartOf(L, Innermost(EnclosingWhiles(root, L[j].loc)))

Lowered == ir.err = ""
Accepted == checked.err = ""
Emitted == assembly.err = ""

IrLists == IF Lowered THEN DOMAIN ir.instructions.lists ELSE {}
IrList(key) == ir.instructions.lists[key]

(***************************************************************************)
(* IR generator: labels and jumps.                                         *)
(***************************************************************************)
\* C1: every Jump emitted for a break (continue) names the while_end
\* (while_start) label minted for the innermost while loop around it.
C1_BreakJumpsToInnermostLoop ==
    \A key \in IrLists :
        \A j \in BreakContinueJumps(IrList(key), root_node) :
            {IrList(key)[j].label.name} = InnermostTarget(IrList(key), j, root_node)

\* Two loops in sequence with a break in the second have been lowered.
C1_SequentialLoopsLowered ==
    /\ Lowered
    /\ root_node.kind = "BlockExpression"
    /\ Len(root_node.body) = 2
    /\ root_node.body[1].kind = "WhileExpression"
    /\ root_node.body[2].kind = "WhileExpression"
    /\ root_node.body[2].body.kind = "BreakExpression"

\* C2: the mapping generate_ir returns always has the key main; without a
\* top-level expression main is the empty function returning unit.
C2_MainAlwaysPresent ==
    Lowered =>
        /\ "main" \in IrLists
        /\ (root_node.kind = "Module"
              /\ root_node.body[Len(root_node.body)].kind = "FuncDef")
           => /\ Positions(IrList("main"), "Return") # {}
              /\ \A j \in 1..Len(IrList("main")) :
                     IrList("main")[j].op \in {"FunctionDef", "Label", "Return"}

\* C3: every label a Jump or CondJump names is a Label instruction of the
\* same list.
C3_JumpTargetsAreLabels ==
    \A key \in IrLists :
        \A j \in 1..Len(IrList(key)) :
            JumpTargets(IrList(key)[j]) \subseteq LabelNames(IrList(key))

\* A lowered function whose list holds a break's or continue's jump and a
\* conditional jump.
C3_BreakJumpLowered ==
    \E key \in IrLists :
        /\ BreakContinueJumps(IrList(key), root_node) # {}
        /\ Positions(IrList(key), "CondJump") # {}

LabelBases ==
    {"start", "while_start", "while_body", "while_end", "then", "else", "if_end",
     "and_right", "and_skip", "and_end", "or_right", "or_skip", "or_end"}

\* the name of the n-th label of a base: base, base2, base3, ...
NthLabel(base, n) == IF n = 1 THEN base ELSE base \o ToString(n)

\* C4: no two Label instructions of a list have the same name, and the
\* names of a base are base, base2, base3, ... without a gap.
C4_LabelsUnique ==
    \A key \in IrLists :
        /\ \A j, k \in Positions(IrList(key), "Label") :
               IrList(key)[j].name = IrList(key)[k].name => j = k
        /\ \A base \in LabelBases :
               \E n \in 0..Len(IrList(key)) :
                   \A m \in 1..Len(IrList(key)) :
                       NthLabel(base, m) \in LabelNames(IrList(key)) <=> m <= n

\* A lowered function with three requests for one base.
C4_BaseRequestedAgain ==
    \E key \in IrLists : {"then", "then2", "then3"} \subseteq LabelNames(IrList(key))

(***************************************************************************)
(* Assembly generator: the stack pointer at calls.                         *)
(***************************************************************************)
RspAdjusts(lines, mn, k) ==
    {j \in 1..(k - 1) : lines[j].mn = mn /\ lines[j].b = Reg("%rsp")}

\* the prologue's subq: the first one of the function
FrameLine(lines) ==
    CHOOSE p \in RspAdjusts(lines, "subq", Len(lines) + 1) :
        \A q \in RspAdjusts(lines, "subq", Len(lines) + 1) : p <= q

\* the pads open at line k: those pushed and not yet popped
OpenPads(lines, k) ==
    Cardinality(RspAdjusts(lines, "subq", k) \ {FrameLine(lines)})
    - Cardinality(RspAdjusts(lines, "addq", k))

\* %rsp modulo 16 at line k, being 8 modulo 16 on entry: the prologue
\* pushes %rbp and takes the frame, every open pad takes 8
RspAtLine(lines, k) ==
    (8 - 8 - lines[FrameLine(lines)].a.n - 8 * OpenPads(lines, k)) % 16

Callqs(lines) == {k \in 1..Len(lines) : lines[k].mn = "callq"}

Padded(lines, k) ==
    /\ OpenPads(lines, k) = 1
    /\ \E j \in RspAdjusts(lines, "subq", k) :
           /\ lines[j].a = Imm(8)
           /\ \A i \in (j + 1)..(k - 1) : lines[i].mn = "movq"
    /\ lines[k + 2] = Line("addq", Imm(8), Reg("%rsp"))

FrameUnaligned(lines) == lines[FrameLine(lines)].a.n % 16 # 0

AssemblyBlocks == IF Emitted THEN 2..Len(assembly.assembly_code) ELSE {}

\* C5: %rsp is a multiple of 16 at every callq, and the call is surrounded
\* by subq $8 / addq $8 exactly when the frame is not a multiple of 16.
C5_StackAlignedAtCalls ==
    \A f \in AssemblyBlocks :
        \A k \in Callqs(assembly.assembly_code[f]) :
            /\ RspAtLine(assembly.assembly_code[f], k) = 0
            /\ Padded(assembly.assembly_code[f], k)
               <=> FrameUnaligned(assembly.assembly_code[f])
            /\ ~Padded(assembly.assembly_code[f], k)
               => OpenPads(assembly.assembly_code[f], k) = 0

\* An emitted function with a padded call.
C5_PaddedCallEmitted ==
    \E f \in AssemblyBlocks :
        \E k \in Callqs(assembly.assembly_code[f]) : Padded(assembly.assembly_code[f], k)

(***************************************************************************)
(* Type checker: conditionals, assignments, returns, functions.            *)
(***************************************************************************)
IfsWithoutElse(root) ==
    {n \in NodesOfKind(root, {"IfExpression"}) : n.else_clause.kind = "None"}

IfsWithElse(root) ==
    {n \in NodesOfKind(root, {"IfExpression"}) : n.else_clause.kind # "None"}

\* C6 as stated: an accepted if without else has the type Unit.
C6_IfWithoutElseIsUnit ==
    Accepted => \A n \in IfsWithoutElse(root_node) : n.type = UnitT

\* C6 as the type checker has it: an accepted if without else has the type of
\* its then-branch.
C6_IfWithoutElseIsThenType ==
    Accepted => \A n \in IfsWithoutElse(root_node) : n.type = n.then_clause.type

\* An accepted if without else whose then-branch is an integer.
C6_IntegerThenAccepted ==
    /\ Accepted
    /\ \E n \in IfsWithoutElse(root_node) : n.then_clause.type = IntT

\* C7: an if with an else branch is accepted only with branches of one
\* type, which is the type of the if.
C7_IfElseBranchesAgree ==
    Accepted =>
        \A n \in IfsWithElse(root_node) :
            /\ n.then_clause.type = n.else_clause.type
            /\ n.type = n.then_clause.type

\* C8: an accepted assignment has an Identifier as its left operand.
C8_AssignmentToIdentifier ==
    Accepted =>
        \A n \in NodesOfKind(root_node, {"BinaryOp"}) :
            n.op = "=" => n.left.kind = "Identifier"

\* the functions of a module, in order, and its top-level expressions
FuncDefs(root) ==
    IF root.kind = "Module"
    THEN [k \in 1..Len(select_indices(root.body, 1, "FuncDef")) |->
             root.body[select_indices(root.body, 1, "FuncDef")[k]]]
    ELSE <<>>

TopLevel(root) ==
    IF root.kind = "Module"
    THEN {root.body[k] : k \in {j \in 1..Len(root.body) : IsExpression(root.body[j])}}
    ELSE {root}

\* the type an annotation declares
Declared(type_expression) ==
    CASE type_expression.kind = "None" -> UnitT
      [] type_expression.name = "Int" -> IntT
      [] type_expression.name = "Bool" -> BoolT
      [] type_expression.name = "Unit" -> UnitT

\* the type of a literal or of no expression, read off the syntax
StaticType(e) ==
    CASE e.kind = "None" -> UnitT
      [] e.kind = "Literal" /\ e.value.py = "int" -> IntT
      [] e.kind = "Literal" /\ e.value.py = "bool" -> BoolT
      [] OTHER -> UnitT

Returns(node) == NodesOfKind(node, {"ReturnExpression"})

\* the type the checker found for the value of a return
ReturnedType(r) == IF r.result.kind = "None" THEN UnitT ELSE r.result.type

DistinctNames(root) ==
    \A j, k \in 1..Len(FuncDefs(root)) :
        /\ FuncDefs(root)[j].name \notin DOMAIN root_table
        /\ FuncDefs(root)[j].name = FuncDefs(root)[k].name => j = k

\* the annotations of a program: of declarations, parameters and results
TypeExpressions(root) ==
    {n.type_expression : n \in NodesOfKind(root, {"Declaration", "FuncDef"})}
    \cup UNION {{f.params[k].type_expression : k \in 1..Len(f.params)} :
                 f \in NodesOfKind(root, {"FuncDef"})}

\* no annotation, or one spelled as a type
Spelled(type_expression) ==
    type_expression.kind = "None" \/ type_expression.name \in {"Int", "Bool", "Unit"}

\* modules in which only a return can fail: distinct function names,
\* annotations spelled as types, and below the functions and the top level
\* only blocks, literals and returns of literals or of nothing
ReturnsOnly(root) ==
    /\ root.kind = "Module"
    /\ DistinctNames(root)
    /\ \A te \in TypeExpressions(root) : Spelled(te)
    /\ \A n \in SubNodes(root) :
           n.kind \in {"Module", "FuncDef", "BlockExpression", "Literal",
                       "ReturnExpression"}

MismatchedReturn(root) ==
    \E k \in 1..Len(FuncDefs(root)) :
        \E r \in Returns(FuncDefs(root)[k].body) :
            StaticType(r.result) # Declared(FuncDefs(root)[k].type_expression)

ReturnOutside(root) == \E e \in TopLevel(root) : Returns(e) # {}

\* C9: in an accepted program every return in a function has the declared
\* type of the function (Unit for a bare return and for no annotation) and
\* there is no return outside the functions; where only returns can fail,
\* a return of another type raises TypeError, else a return outside the
\* functions raises SyntaxError, else the module is accepted.
C9_ReturnsChecked ==
    /\ Accepted =>
          /\ \A k \in 1..Len(FuncDefs(root_node)) :
                 \A r \in Returns(FuncDefs(root_node)[k].body) :
                     ReturnedType(r) = Declared(FuncDefs(root_node)[k].type_expression)
          /\ ~ReturnOutside(root_node)
    /\ (pc # "parsed" /\ ReturnsOnly(root_node)) =>
          checked.err = IF MismatchedReturn(root_node) THEN "TypeError"
                        ELSE IF ReturnOutside(root_node) THEN "SyntaxError"
                        ELSE ""

\* A bare return in a function declared Int has raised TypeError.
C9_BareReturnRejected ==
    /\ checked.err = "TypeError"
    /\ ReturnsOnly(root_node)
    /\ ~ReturnOutside(root_node)
    /\ \E k \in 1..Len(FuncDefs(root_node)) :
           /\ Declared(FuncDefs(root_node)[k].type_expression) = IntT
           /\ \E r \in Returns(FuncDefs(root_node)[k].body) : r.result.kind = "None"

Calls_of(node) == NodesOfKind(node, {"FuncExpression"})

\* the function of the module a call names; the calls of CallsOnly
\* modules name f or g
Callee(root, call) ==
    FuncDefs(root)[CHOOSE k \in 1..Len(FuncDefs(root)) :
                       FuncDefs(root)[k].name = call.identifier.name]

Defined(root, call) ==
    \E k \in 1..Len(FuncDefs(root)) : FuncDefs(root)[k].name = call.identifier.name

\* the arguments of the call have the types of the parameters they meet
ArgumentsMatch(root, call) ==
    \A k \in 1..Len(call.args) :
        k <= Len(Callee(root, call).params) =>
            StaticType(call.args[k]) =
                Declared(Callee(root, call).params[k].type_expression)

\* modules in which only a call can fail: distinct function names, and
\* below the functions and the top level only blocks, literals and calls
\* with literal arguments
CallsOnly(root) ==
    /\ root.kind = "Module"
    /\ DistinctNames(root)
    /\ \A te \in TypeExpressions(root) : Spelled(te)
    /\ \A n \in SubNodes(root) :
           n.kind \in {"Module", "FuncDef", "BlockExpression", "Literal",
                       "FuncExpression"}

Redeclared(root) == root.kind = "Module" /\ ~DistinctNames(root)

\* C10: a module that declares a function under a name already bound in
\* the root scope raises NameError; where only calls can fail, a module is
\* accepted exactly when every call, to a function defined earlier or
\* later, names a function of the module and passes arguments of its
\* parameters' types, and the call then has that function's return type.
C10_FunctionsRegisteredFirst ==
    /\ (pc # "parsed" /\ Redeclared(root_node)) => checked.err = "NameError"
    /\ (pc # "parsed" /\ CallsOnly(root_node)) =>
          /\ Accepted <=> \A c \in Calls_of(root_node) :
                              Defined(root_node, c) /\ ArgumentsMatch(root_node, c)
          /\ Accepted => \A c \in Calls_of(root_node) :
                             c.type = Declared(Callee(root_node, c).type_expression)

\* An accepted module whose first function calls the second and whose
\* second calls the first.
C10_MutualRecursionAccepted ==
    /\ Accepted
    /\ CallsOnly(root_node)
    /\ Len(FuncDefs(root_node)) = 2
    /\ \E c \in Calls_of(FuncDefs(root_node)[1].body) :
           c.identifier.name = FuncDefs(root_node)[2].name
    /\ \E c \in Calls_of(FuncDefs(root_node)[2].body) :
           c.identifier.name = FuncDefs(root_node)[1].name

(***************************************************************************)
(* Type checker: scopes.                                                   *)
(***************************************************************************)
\* programs in which only a name can fail: blocks whose statements are
\* identifiers and unannotated declarations of literals
DeclarationsOnly(root) ==
    /\ root.kind = "BlockExpression"
    /\ \A n \in SubNodes(root) :
           /\ n.kind \in {"BlockExpression", "Declaration", "Identifier", "Literal"}
           /\ n.kind = "BlockExpression" =>
                  \A k \in 1..Len(n.body) : n.body[k].kind # "Literal"
           /\ n.kind = "Declaration" =>
                  n.expression.kind = "Literal" /\ n.type_expression.kind = "None"

\* the declarations of name that stand before the position loc in the
\* block that holds loc or in a block around it
VisibleDeclarations(root, loc, name) ==
    {d \in NodesOfKind(root, {"Declaration"}) :
        /\ d.identifier.name = name
        /\ Len(d.loc) <= Len(loc)
        /\ SubSeq(d.loc, 1, Len(d.loc) - 1) = SubSeq(loc, 1, Len(d.loc) - 1)
        /\ d.loc[Len(d.loc)] < loc[Len(d.loc)]}

\* the declaration the name at loc resolves to: the last one of the
\* innermost block that has one
Binding(root, loc, name) ==
    CHOOSE d \in VisibleDeclarations(root, loc, name) :
        \A v \in VisibleDeclarations(root, loc, name) :
            \/ Len(v.loc) < Len(d.loc)
            \/ Len(v.loc) = Len(d.loc) /\ v.loc[Len(v.loc)] <= d.loc[Len(d.loc)]

\* two declarations of one name directly in one block
DeclaredTwice(root) ==
    \E d1, d2 \in NodesOfKind(root, {"Declaration"}) :
        /\ d1.loc # d2.loc
        /\ d1.identifier.name = d2.identifier.name
        /\ Len(d1.loc) = Len(d2.loc)
        /\ SubSeq(d1.loc, 1, Len(d1.loc) - 1) = SubSeq(d2.loc, 1, Len(d2.loc) - 1)

Undefined(root) ==
    \E n \in NodesOfKind(root, {"Identifier"}) :
        VisibleDeclarations(root, n.loc, n.name) = {}

\* C11: where only a name can fail, a program is accepted exactly when no
\* block declares a name twice and every name used has a declaration
\* before it in its block or in a block around it, and is rejected with
\* NameError otherwise; in an accepted program every use of a name has the
\* type of the last declaration of the innermost such block, so that a
\* declaration in a nested block shadows the outer one inside that block
\* only.
C11_DeclarationsScoped ==
    (pc # "parsed" /\ DeclarationsOnly(root_node)) =>
        /\ checked.err = IF DeclaredTwice(root_node) \/ Undefined(root_node)
                         THEN "NameError" ELSE ""
        /\ Accepted =>
               \A n \in NodesOfKind(root_node, {"Identifier"}) :
                   n.type = StaticType(Binding(root_node, n.loc, n.name).expression)

\* An accepted program declares x in a block and again in a block nested
\* in it, and uses x with one type inside the nested block and with another
\* type after it.
C11_ShadowedThenRestored ==
    /\ Accepted
    /\ DeclarationsOnly(root_node)
    /\ \E inner, outer \in NodesOfKind(root_node, {"Identifier"}) :
           /\ inner.name = outer.name
           /\ Len(inner.loc) > Len(outer.loc)
           /\ inner.type = BoolT
           /\ outer.type = IntT
           /\ \E d \in VisibleDeclarations(root_node, inner.loc, inner.name) :
                  d.loc[Len(d.loc)] < outer.loc[Len(outer.loc)] /\ Len(d.loc) = Len(outer.loc)

(***************************************************************************)
(* Type checker: annotations.                                              *)
(***************************************************************************)
\* programs in which only an annotation can fail: declarations of literals
\* under distinct names in one block, or functions with empty bodies
AnnotationsOnly(root) ==
    /\ \A n \in SubNodes(root) :
           /\ n.kind \in {"BlockExpression", "Declaration", "Literal", "Module", "FuncDef"}
           /\ n.kind = "FuncDef" => n.body.body = <<>>
    /\ ~DeclaredTwice(root)
    /\ root.kind = "Module" => DistinctNames(root)

\* a declaration whose annotation names another type than its literal has
AnnotationMismatch(root) ==
    \E d \in NodesOfKind(root, {"Declaration"}) :
        /\ d.type_expression.kind # "None"
        /\ Spelled(d.type_expression)
        /\ Declared(d.type_expression) # StaticType(d.expression)

\* C12: in an accepted program every annotation is spelled Int, Bool or
\* Unit and has been given the scalar type of that spelling; where only an
\* annotation can fail, a program is rejected with TypeError exactly when
\* an annotation is spelled otherwise or names another type than the
\* declared literal has, whatever the names of the variables, parameters
\* and functions in scope.
C12_AnnotationsBySpelling ==
    /\ Accepted =>
           \A te \in TypeExpressions(root_node) :
               /\ Spelled(te)
               /\ te.kind # "None" => te.type = Declared(te)
    /\ (pc # "parsed" /\ AnnotationsOnly(root_node)) =>
           checked.err = IF \/ \E te \in TypeExpressions(root_node) : ~Spelled(te)
                            \/ AnnotationMismatch(root_node)
                         THEN "TypeError" ELSE ""

\* An accepted program binds a boolean variable named Int and then
\* declares a variable annotated Int, which has the type Int.
C12_VariableNamedLikeType ==
    /\ Accepted
    /\ AnnotationsOnly(root_node)
    /\ \E d1, d2 \in NodesOfKind(root_node, {"Declaration"}) :
           /\ d1.identifier.name = "Int"
           /\ StaticType(d1.expression) = BoolT
           /\ d2.type_expression.kind # "None"
           /\ d2.type_expression.name = "Int"
           /\ d2.type_expression.type = IntT
           /\ d1.loc[Len(d1.loc)] < d2.loc[Len(d2.loc)]

(***************************************************************************)
(* Type checker: the built-in functions.                                   *)
(***************************************************************************)
\* the parameter types and the return type a name is bound to in the root
\* scope the type checker returns
Signature(name) ==
    <<checked.root_table[name].params, checked.root_table[name].return_type>>

\* C13: the root scope the type checker returns binds print_int to
\* (Int) -> Unit, print_bool to (Bool) -> Unit and read_int to () -> Int.
C13_BuiltinSignatures ==
    Accepted =>
        /\ Signature("print_int") = <<(<<IntT>>), UnitT>>
        /\ Signature("print_bool") = <<(<<BoolT>>), UnitT>>
        /\ Signature("read_int") = <<(<<>>), IntT>>

(***************************************************************************)
(* Tokenizer.                                                              *)
(***************************************************************************)
Tokenized == pc # "source" /\ tokens # NotRun /\ tokens.err = ""

\* the index at which the skip patterns of one round, from the k-th on,
\* leave the loop
RECURSIVE SkippedFrom(_, _, _)
SkippedFrom(source, index, k) ==
    IF k > Len(skip_patterns) THEN index
    ELSE SkippedFrom(source,
                     IF skip_match(skip_patterns[k], source, index) = NoMatch THEN index
                     ELSE skip_match(skip_patterns[k], source, index),
                     k + 1)

\* the indices at which the loop of tokenize matches a token pattern, from
\* index on: k is the next token pattern of the round that began at start,
\* 0 before the round's skip patterns
RECURSIVE TokenOffsets(_, _, _, _)
TokenOffsets(source, index, k, start) ==
    IF k = 0
    THEN IF index >= Len(source) THEN <<>>
         ELSE TokenOffsets(source, SkippedFrom(source, index, 1), 1, index)
    ELSE IF k > Len(token_patterns)
    THEN IF index = start THEN <<>> ELSE TokenOffsets(source, index, 0, index)
    ELSE IF token_match(token_patterns[k], source, index) = NoMatch
    THEN TokenOffsets(source, index, k + 1, start)
    ELSE <<index>> \o TokenOffsets(source, token_match(token_patterns[k], source, index),
                                   k + 1, start)

\* the indices of the line breaks before index
LineBreaksBefore(source, index) ==
    {j \in 0..(index - 1) : char_at(source, j) = "\n"}

\* the line and the column of the character at index: lines and columns
\* count from 1, and the column counts from the last line break before it
LineColumn(source, index) ==
    Location(1 + Cardinality(LineBreaksBefore(source, index)),
             IF LineBreaksBefore(source, index) = {} THEN index + 1
             ELSE index - (CHOOSE j \in LineBreaksBefore(source, index) :
                              \A i \in LineBreaksBefore(source, index) : i <= j))

\* C14: for every source text tokenize accepts, each token's location is
\* the line and column of the token's first character, after any white
\* space, line comments and block comments before it.
C14_LocationOfFirstCharacter ==
    Tokenized =>
        /\ Len(tokens.tokens) = Len(TokenOffsets(source_code, 0, 0, 0))
        /\ \A k \in 1..Len(tokens.tokens) :
               tokens.tokens[k].location =
                   LineColumn(source_code, TokenOffsets(source_code, 0, 0, 0)[k])

\* A token stands on a later line right after a block comment that began
\* on an earlier line, and its column is past the comment.
C14_TokenAfterMultilineComment ==
    /\ Tokenized
    /\ \E k \in 1..Len(tokens.tokens) :
           /\ tokens.tokens[k].location.line > 1
           /\ tokens.tokens[k].location.column > 2
           /\ starts_with(source_code, TokenOffsets(source_code, 0, 0, 0)[k] - 2, "*/")
           /\ starts_with(source_code, 0, "/*")

\* the kinds in the order of priority, and the first of them whose pattern
\* matches at index
PriorityOrder ==
    <<"while_loop", "conditional", "declaration", "bool_literal", "int_literal",
      "operator", "identifier", "punctuation">>

Matching(source, index) ==
    {k \in 1..Len(PriorityOrder) : token_match(PriorityOrder[k], source, index) # NoMatch}

FirstKind(source, index) ==
    PriorityOrder[CHOOSE k \in Matching(source, index) :
                      \A j \in Matching(source, index) : k <= j]

\* C15: at every offset where tokenize emits a token, the token has the
\* first kind, in the order of priority, whose pattern matches at that
\* offset: a reserved word that stands as a whole word is no identifier.
C15_FirstMatchingKind ==
    Tokenized =>
        \A k \in 1..Len(tokens.tokens) :
            tokens.tokens[k].type =
                FirstKind(source_code, TokenOffsets(source_code, 0, 0, 0)[k])

\* the texts of the tokens joined by single spaces
RECURSIVE Joined(_, _)
Joined(toks, k) ==
    IF k > Len(toks) THEN ""
    ELSE IF k = Len(toks) THEN toks[k].text
    ELSE toks[k].text \o " " \o Joined(toks, k + 1)

KindsAndTexts(toks) == [k \in 1..Len(toks) |-> <<toks[k].type, toks[k].text>>]

\* C16: for every source text tokenize accepts, tokenizing the texts of
\* its tokens joined by single spaces yields the same kinds and texts in
\* the same order.
C16_RetokenizingIsStable ==
    Tokenized =>
        /\ tokenize(Joined(tokens.tokens, 1)).err = ""
        /\ KindsAndTexts(tokenize(Joined(tokens.tokens, 1)).tokens)
               = KindsAndTexts(tokens.tokens)

(***************************************************************************)
(* Parser.                                                                 *)
(***************************************************************************)
ParseDone == parsed # NotRun

EndsWithBrace(text) == char_at(text, Len(text) - 1) = "}"

\* C17: of two expressions written one after the other with no ";"
\* between them, in braces or at the top level, the parser accepts only
\* those whose first expression ends in "}" and raises SyntaxError for
\* every other first expression.
C17_MissingSemicolonRejected ==
    ParseDone =>
        \A e1 \in FirstExpressions, e2 \in SecondExpressions :
            source_code \in {Braced(e1, e2), Adjacent(e1, e2)} =>
                /\ parsed.err = "" => EndsWithBrace(e1)
                /\ ~EndsWithBrace(e1) => parsed.err = "SyntaxError"

\* the level of a binary operator, the loosest first
Level(op) ==
    CASE op = "=" -> 0
      [] op = "or" -> 1
      [] op = "and" -> 2
      [] op \in {"==", "!="} -> 3
      [] op \in {"<", "<=", ">", ">="} -> 4
      [] op \in {"+", "-"} -> 5
      [] op \in {"*", "/", "%"} -> 6

\* the operands and operators of a tree, from left to right
RECURSIVE InOrder(_)
InOrder(node) ==
    CASE node.kind = "BinaryOp" -> InOrder(node.left) \o <<node.op>> \o InOrder(node.right)
      [] node.kind = "UnaryOp" -> <<node.op>> \o InOrder(node.expression)
      [] node.kind = "Identifier" -> <<node.name>>
      [] OTHER -> <<>>

\* the grouping of one binary operator with the operators next to it
Grouped(node) ==
    IF node.op = "="
    THEN node.left.kind = "BinaryOp" => Level(node.left.op) > 0
    ELSE /\ node.left.kind = "BinaryOp" => Level(node.left.op) >= Level(node.op)
         /\ node.right.kind = "BinaryOp" => Level(node.right.op) > Level(node.op)

\* C18: a chain of operands joined by binary operators is parsed into the
\* tree of its tokens in their order in which an operator of a tighter
\* level stands below the operators next to it of a looser level, operators
\* of one level group to the left, = groups to the right below all of
\* them, and a unary operator takes the operand alone.
C18_PrecedenceAndAssociativity ==
    (ParseDone /\ source_code \in OperatorSources) =>
        /\ parsed.err = ""
        /\ InOrder(parsed.node) = [k \in 1..Len(tokens.tokens) |-> tokens.tokens[k].text]
        /\ \A n \in NodesOfKind(parsed.node, {"BinaryOp"}) : Grouped(n)
        /\ \A n \in NodesOfKind(parsed.node, {"UnaryOp"}) :
               n.expression.kind \in {"Identifier", "UnaryOp"}

\* A chain is parsed into an "or" whose left side is an "or" and whose
\* right side is a product.
C18_LeftGroupedAboveTighter ==
    /\ ParseDone
    /\ source_code \in OperatorSources
    /\ parsed.err = ""
    /\ parsed.node.kind = "BinaryOp"
    /\ parsed.node.op = "or"
    /\ parsed.node.left.kind = "BinaryOp"
    /\ parsed.node.left.op = "or"
    /\ parsed.node.right.kind = "BinaryOp"
    /\ parsed.node.right.op = "*"

(***************************************************************************)
(* IR generator: variables.                                                *)
(***************************************************************************)
\* the variables an instruction reads
Operands(ins) ==
    CASE ins.op = "Copy" -> {ins.source}
      [] ins.op = "Call" -> {ins.fun} \cup {ins.args[k] : k \in 1..Len(ins.args)}
      [] ins.op = "CondJump" -> {ins.cond}
      [] ins.op = "Return" -> {ins.result}
      [] OTHER -> {}

\* the variables the instructions of a list write
Destinations(L) ==
    {L[j].dest : j \in {k \in 1..Len(L) :
                           L[k].op \in {"LoadBoolConst", "LoadIntConst", "Copy", "Call"}}}

\* the parameters the FunctionDef at the head of a list names
Parameters(L) ==
    UNION {{L[j].args[k] : k \in 1..Len(L[j].args)} : j \in Positions(L, "FunctionDef")}

\* the built-in functions, the operators, the unit value and the functions
\* of the program
ReservedNames ==
    DOMAIN root_table \cup {"unit"}
    \cup {FuncDefs(root_node)[k].name : k \in 1..Len(FuncDefs(root_node))}

\* C19: every variable an instruction of a function's list reads is a
\* reserved name, a parameter of the function or the destination of an
\* instruction of the same list.
C19_OperandsDefined ==
    Lowered =>
        \A key \in IrLists :
            \A j \in 1..Len(IrList(key)) :
                Operands(IrList(key)[j])
                    \subseteq ReservedNames \cup Parameters(IrList(key))
                                 \cup Destinations(IrList(key))

(***************************************************************************)
(* IR generator: the end of main.                                          *)
(***************************************************************************)
PrintNames == {"print_int", "print_bool"}

\* the calls of the list to print_int and print_bool
PrintCalls(L) == {j \in Positions(L, "Call") : L[j].fun \in PrintNames}

\* the calls to print_int and print_bool the top-level expression makes
ProgramPrintCalls(root) ==
    UNION {{c \in Calls_of(e) : c.identifier.name \in PrintNames} : e \in TopLevel(root)}

\* the list ends with a call of the print function on one variable that an
\* instruction before the call has written, then Return(unit); the call is
\* one more than the program makes
EndsWithPrint(L, print_function, root) ==
    /\ Len(L) >= 3
    /\ L[Len(L) - 1].op = "Call"
    /\ L[Len(L) - 1].fun = print_function
    /\ Len(L[Len(L) - 1].args) = 1
    /\ L[Len(L) - 1].args[1] \in Destinations(SubSeq(L, 1, Len(L) - 2))
    /\ Cardinality(PrintCalls(L)) = Cardinality(ProgramPrintCalls(root)) + 1

MainExpression(root) ==
    IF root.kind = "Module"
    THEN root.body[CHOOSE k \in 1..Len(root.body) :
                       /\ IsExpression(root.body[k])
                       /\ \A j \in (k + 1)..Len(root.body) : ~IsExpression(root.body[j])]
    ELSE root

\* the type of the value an expression yields: its checked type, except
\* that an if without else, a loop, a declaration, break, continue and
\* return yield the unit value, and a block yields what its last
\* expression yields, and the call of a name that is no function but a
\* declared variable yields what the variable holds
NamesFunction(call) ==
    /\ call.identifier.name \in DOMAIN checked.root_table
    /\ IsFunType(checked.root_table[call.identifier.name])

DeclarationOf(name) ==
    CHOOSE d \in NodesOfKind(root_node, {"Declaration"}) : d.identifier.name = name

RECURSIVE Yielded(_)
Yielded(node) ==
    IF node.kind \in {"WhileExpression", "Declaration", "BreakExpression",
                      "ContinueExpression", "ReturnExpression"}
    THEN UnitT
    ELSE IF node.kind = "IfExpression" /\ node.else_clause.kind = "None" THEN UnitT
    ELSE IF node.kind = "FuncExpression" /\ ~NamesFunction(node)
    THEN Yielded(DeclarationOf(node.identifier.name).expression)
    ELSE IF node.kind = "BlockExpression"
    THEN IF Len(node.body) = 0 THEN UnitT ELSE Yielded(node.body[Len(node.body)])
    ELSE node.type

C20_IntegerThenNotPrinted ==
    /\ Lowered /\ "main" \in IrLists
    /\ root_node.kind = "IfExpression" /\ root_node.else_clause.kind = "None"
    /\ checked.type = IntT
    /\ PrintCalls(IrList("main")) = {}
    /\ IrList("main")[Len(IrList("main"))].op = "Return"

RECURSIVE YieldsSentinel(_)
YieldsSentinel(node) ==
    IF node.kind \in {"WhileExpression", "Declaration", "BreakExpression",
                      "ContinueExpression"}
    THEN TRUE
    ELSE IF node.kind = "Literal" THEN node.value = NoneValue
    ELSE IF node.kind = "IfExpression" THEN node.else_clause.kind = "None"
    ELSE IF node.kind = "BlockExpression"
    THEN Len(node.body) = 0 \/ YieldsSentinel(node.body[Len(node.body)])
    ELSE FALSE

\* the position of the jump to a label, and of the label
JumpTo(L, name) ==
    CHOOSE j \in Positions(L, "Jump") : L[j].label.name = name

LabelAt(L, name) ==
    CHOOSE j \in Positions(L, "Label") : L[j].name = name

\* the root expression is an if with an else branch, lowered into main
RootIfWithElse ==
    /\ Lowered /\ "main" \in IrLists
    /\ root_node.kind = "IfExpression"
    /\ root_node.else_clause.kind # "None"

\* the copies that end the branches of the root if: the instruction before
\* the jump to if_end, and the instruction before the label if_end
ThenCopy == IrList("main")[JumpTo(IrList("main"), "if_end") - 1]
ElseCopy == IrList("main")[LabelAt(IrList("main"), "if_end") - 1]

\* C21: the copy that ends a branch of an if with else writes the result
\* temporary of the if, the same in both branches, and when the branch
\* yields the unit value its source is the variable named unit that
\* Return(unit) uses.
C21_UnitBranchCopied ==
    RootIfWithElse =>
        /\ ThenCopy.op = "Copy" /\ ElseCopy.op = "Copy"
        /\ ThenCopy.dest = ElseCopy.dest
        /\ YieldsSentinel(root_node.then_clause) => ThenCopy.source = var_unit
        /\ YieldsSentinel(root_node.else_clause) => ElseCopy.source = var_unit

(***************************************************************************)
(* Assembly generator: parameters.                                         *)
(***************************************************************************)
\* the function a block of the assembly is emitted for
FunctionOf(f) == ir.instructions.keys[f - 1]

\* the parameters the head of a function's list names
HeadParameters(f) == IrList(FunctionOf(f))[1].args

\* the prologue's moves: the lines between movq %rsp, %rbp and the subq
\* that opens the frame
PrologueMoves(lines) == SubSeq(lines, 8, FrameLine(lines) - 1)

\* C22: the prologue of a function with at most six parameters moves the
\* i-th argument register into a slot of its own for the i-th parameter
\* of the head, for every parameter.
C22_ParametersStored ==
    \A f \in AssemblyBlocks :
        Len(HeadParameters(f)) <= Len(call_registers) =>
            /\ Len(PrologueMoves(assembly.assembly_code[f])) = Len(HeadParameters(f))
            /\ \A i \in 1..Len(PrologueMoves(assembly.assembly_code[f])) :
                   /\ PrologueMoves(assembly.assembly_code[f])[i].mn = "movq"
                   /\ PrologueMoves(assembly.assembly_code[f])[i].a = Reg(call_registers[i])
                   /\ PrologueMoves(assembly.assembly_code[f])[i].b.k = "mem"
                   /\ \A j \in 1..(i - 1) :
                          PrologueMoves(assembly.assembly_code[f])[j].b
                              # PrologueMoves(assembly.assembly_code[f])[i].b

(***************************************************************************)
(* Assembly generator: the names of functions.                             *)
(***************************************************************************)
\* the variables the instructions after the head of a list name
BodyVariables(L) ==
    UNION {Operands(L[j]) : j \in 2..Len(L)} \cup Destinations(SubSeq(L, 2, Len(L)))

\* the slots of a block, from the frame its prologue opens
FrameOf(f) == assembly.assembly_code[f][FrameLine(assembly.assembly_code[f])].a

\* C23: the frame of every function block has one slot for each variable
\* of the function's list that is no built-in, not the unit value and not
\* the name of a function of the map, so no slot is taken by the name of
\* a called function, whatever the order of the functions.
C23_NoSlotForCallee ==
    \A f \in AssemblyBlocks :
        FrameOf(f) = Imm(frame_size(Cardinality(
                         BodyVariables(IrList(FunctionOf(f)))
                             \ (builtin_names \cup {var_unit} \cup IrLists))))

(***************************************************************************)
(* IR generator: and, or.                                                  *)
(***************************************************************************)
\* the value of a boolean expression of literals, not, and, or
RECURSIVE ValueOf(_)
ValueOf(node) ==
    IF node.kind = "Literal" THEN node.value.b
    ELSE IF node.kind = "UnaryOp" THEN ~ValueOf(node.expression)
    ELSE IF node.op = "and" THEN ValueOf(node.left) /\ ValueOf(node.right)
    ELSE ValueOf(node.left) \/ ValueOf(node.right)

BooleanOnly(root) ==
    \A n \in SubNodes(root) :
        \/ n.kind = "Literal" /\ n.value.py = "bool"
        \/ n.kind = "UnaryOp" /\ n.op = "not"
        \/ n.kind = "BinaryOp" /\ n.op \in {"and", "or"}

MaxSteps == 60

\* the execution of a list from the instruction at position at: the values of the
\* variables at the Return and the positions of the instructions executed
RECURSIVE Execute(_, _, _, _, _)
Execute(L, at, env, executed, steps) ==
    IF steps = 0 \/ at > Len(L)
    THEN [returned |-> FALSE, env |-> env, executed |-> executed]
    ELSE IF L[at].op = "Return"
    THEN [returned |-> TRUE, env |-> env, executed |-> executed \cup {at}]
    ELSE IF L[at].op \in {"LoadBoolConst", "LoadIntConst"}
    THEN Execute(L, at + 1, (L[at].dest :> L[at].value) @@ env,
                 executed \cup {at}, steps - 1)
    ELSE IF L[at].op = "Copy" /\ L[at].source \in DOMAIN env
    THEN Execute(L, at + 1, (L[at].dest :> env[L[at].source]) @@ env,
                 executed \cup {at}, steps - 1)
    ELSE IF L[at].op = "Call" /\ L[at].fun = "unary_not"
    THEN Execute(L, at + 1, (L[at].dest :> ~env[L[at].args[1]]) @@ env,
                 executed \cup {at}, steps - 1)
    ELSE IF L[at].op = "Jump"
    THEN Execute(L, LabelAt(L, L[at].label.name), env, executed \cup {at}, steps - 1)
    ELSE IF L[at].op = "CondJump"
    THEN Execute(L, LabelAt(L, IF env[L[at].cond] THEN L[at].then_label.name
                               ELSE L[at].else_label.name),
                 env, executed \cup {at}, steps - 1)
    ELSE Execute(L, at + 1, env, executed \cup {at}, steps - 1)

\* the execution of main from its first instruction
MainExecuted == Execute(IrList("main"), 1, [v \in {} |-> FALSE], {}, MaxSteps)

\* the root expression is a conjunction or disjunction of boolean
\* expressions, lowered into main
RootAndOr ==
    /\ Lowered /\ "main" \in IrLists
    /\ root_node.kind = "BinaryOp" /\ root_node.op \in {"and", "or"}
    /\ BooleanOnly(root_node)

\* the code of the root operator ends the list before the print call:
\* Copy(right, result), Jump(end), skip, LoadBoolConst(_, result),
\* Jump(end), end
EndLabel(L) == CHOOSE j \in Positions(L, "Label") : \A k \in Positions(L, "Label") : k <= j
SkipLabel(L) == EndLabel(L) - 3
RightCopy(L) == EndLabel(L) - 5
RootJump(L) ==
    CHOOSE j \in Positions(L, "CondJump") : L[SkipLabel(L)].name \in JumpTargets(L[j])
RightLabel(L) ==
    LabelAt(L, CHOOSE n \in JumpTargets(L[RootJump(L)]) : n # L[SkipLabel(L)].name)
ResultVariable(L) == L[RightCopy(L)].dest

\* C24: the execution of the list of L and R (L or R) runs the code of R,
\* from the label of the right operand to the copy of its value, exactly
\* when L is true (false), and otherwise the load of False (True) at the
\* skip label; at the end label the result variable holds the conjunction
\* (disjunction) of the values of L and R.
C24_ShortCircuit ==
    RootAndOr =>
        /\ MainExecuted.returned
        /\ EndLabel(IrList("main")) \in MainExecuted.executed
        /\ RightLabel(IrList("main")) \in MainExecuted.executed
               <=> (ValueOf(root_node.left) = (root_node.op = "and"))
        /\ RightCopy(IrList("main")) \in MainExecuted.executed
               <=> RightLabel(IrList("main")) \in MainExecuted.executed
        /\ SkipLabel(IrList("main")) \in MainExecuted.executed
               <=> RightLabel(IrList("main")) \notin MainExecuted.executed
        /\ IrList("main")[SkipLabel(IrList("main")) + 1]
               = LoadBoolConst(root_node.loc, root_node.op # "and",
                               ResultVariable(IrList("main")))
        /\ MainExecuted.env[ResultVariable(IrList("main"))] = ValueOf(root_node)

\* A conjunction whose left operand is false has been executed: the code
\* of the right operand was skipped and the result is false.
C24_RightOperandSkipped ==
    /\ RootAndOr
    /\ root_node.op = "and"
    /\ ~ValueOf(root_node.left)
    /\ ValueOf(root_node.right)
    /\ RightLabel(IrList("main")) \notin MainExecuted.executed
    /\ MainExecuted.env[ResultVariable(IrList("main"))] = FALSE

(***************************************************************************)
(* Symbol table: require.                                                  *)
(***************************************************************************)
\* the scopes of the chain that bind the symbol, and the nearest of them
BindingScopes(st, symbol) == {k \in 1..Len(st) : symbol \in DOMAIN st[k]}

NearestScope(st, symbol) ==
    CHOOSE k \in BindingScopes(st, symbol) : \A j \in BindingScopes(st, symbol) : j <= k

\* C25: require returns the value the nearest scope that binds the name
\* holds for it, and raises NameError exactly when no scope of the chain
\* binds the name, whatever the type of the values.
C25_RequireFindsNearest ==
    pc = "required" =>
        /\ required.result.err = "NameError"
               <=> BindingScopes(symtab, required.symbol) = {}
        /\ required.result.err = "" =>
               required.result.value
                   = symtab[NearestScope(symtab, required.symbol)][required.symbol]

(***************************************************************************)
(* Assembly generator: integer constants.                                  *)
(***************************************************************************)
\* the k-th smallest element of a set of positions
NthPosition(S, k) == CHOOSE x \in S : Cardinality({y \in S : y <= x}) = k

\* the lines of a block that announce an instruction of the given kind
Announcements(lines, op) ==
    {j \in 1..Len(lines) : lines[j] = Line1("#", Sym(op))}

\* half of an integer, rounded down
Half(value) == (value.n \div 2) + (((value.n % 2) + value.carry) \div 2)

\* -2^31 <= value < 2^31: its half lies between -2^30 and 2^30 - 1
Signed32(value) == -1073741824 <= Half(value) /\ Half(value) <= 1073741823

\* the lines emitted for the k-th LoadIntConst of the list of block f:
\* one movq into a slot when the value is a signed 32-bit number, else
\* movabsq into %rax and movq from %rax into a slot
LoadEmitted(lines, at, value) ==
    IF Signed32(value)
    THEN /\ lines[at + 1].mn = "movq"
         /\ lines[at + 1].a = ImmInt(value)
         /\ lines[at + 1].b.k = "mem"
         /\ lines[at + 2] = Line0("")
    ELSE /\ lines[at + 1] = Line("movabsq", ImmInt(value), Reg("%rax"))
         /\ lines[at + 2].mn = "movq"
         /\ lines[at + 2].a = Reg("%rax")
         /\ lines[at + 2].b.k = "mem"
         /\ lines[at + 3] = Line0("")

\* C26: for every LoadIntConst(v, d) of an emitted list the block holds a
\* single movq $v, slot(d) exactly when -2^31 <= v < 2^31, and otherwise
\* movabsq $v, %rax followed by movq %rax, slot(d).
C26_WideConstants ==
    \A f \in AssemblyBlocks :
        \A k \in 1..Cardinality(Positions(IrList(FunctionOf(f)), "LoadIntConst")) :
            LoadEmitted(assembly.assembly_code[f],
                        NthPosition(Announcements(assembly.assembly_code[f], "LoadIntConst"), k),
                        IrList(FunctionOf(f))[
                            NthPosition(Positions(IrList(FunctionOf(f)), "LoadIntConst"), k)].value)

\* The constant 2^31 has been emitted with movabsq, and the constant
\* 2^31 - 1 would not be.
C26_FirstWideConstant ==
    /\ Emitted
    /\ root_node.kind = "Literal"
    /\ root_node.value = IntValueWide(2147483647, 1)
    /\ \E j \in 1..Len(assembly.assembly_code[2]) :
           assembly.assembly_code[2][j].mn = "movabsq"

(***************************************************************************)
(* IR generator and type checker: the types of values.                     *)
(***************************************************************************)
\* the lowering of an expression on its own, in the scope of the built-ins
\* and functions of the program: the closure state visit returns
LoweringOf(expr) ==
    visit(generate_ir_body_start(extract_root_types(checked.root_table), expr, <<>>), expr)

\* the expressions of the program that are lowered without error on their
\* own: those that use no variable declared outside them and no break or
\* continue of a loop around them
ClosedExpressions(root) ==
    {n \in SubNodes(root) : IsExpression(n) /\ LoweringOf(n).err = ""}

\* the type the type map holds for the variable the lowering returns
LoweredType(expr) == LoweringOf(expr).var_types[LoweringOf(expr).var]

\* C27: for every expression of an accepted program, the type map of the
\* lowering holds for the returned variable the type the type checker
\* wrote on the node.
C27_LoweredTypesAgree ==
    Accepted =>
        \A n \in ClosedExpressions(root_node) : TypeEq(LoweredType(n), n.type)

(***************************************************************************)
(* Assembly generator: every variable read or written has a slot.          *)
(***************************************************************************)
\* the variables for which the emitter asks a slot without testing for
\* one: all but the called function and the result of a Return
SlotOperands(ins) ==
    CASE ins.op = "Copy" -> {ins.source, ins.dest}
      [] ins.op = "Call" -> {ins.args[k] : k \in 1..Len(ins.args)} \cup {ins.dest}
      [] ins.op = "CondJump" -> {ins.cond}
      [] ins.op \in {"LoadIntConst", "LoadBoolConst"} -> {ins.dest}
      [] OTHER -> {}

\* C28: the emitter never asks for the slot of a variable that has none:
\* no instruction of a lowered list other than a Return names the unit
\* variable, and the emission of every lowered program succeeds.
C28_EverySlotAssigned ==
    /\ Lowered =>
           \A key \in IrLists :
               \A j \in 1..Len(IrList(key)) : var_unit \notin SlotOperands(IrList(key)[j])
    /\ (Lowered /\ assembly # NotRun) => assembly.err = ""

(***************************************************************************)
(* Type checker: calls.                                                    *)
(***************************************************************************)
\* the type the root table binds the name of a call to
CalledType(call) == checked.root_table[call.identifier.name]

\* C29: every call of an accepted program names a function, and has as
\* many arguments as the function has parameters, each of the type of the
\* parameter it meets.
C29_CallsMatchSignature ==
    Accepted =>
        \A c \in Calls_of(root_node) :
            /\ c.identifier.name \in DOMAIN checked.root_table
            /\ IsFunType(CalledType(c))
            /\ Len(c.args) = Len(CalledType(c).params)
            /\ \A k \in 1..Len(c.args) : TypeEq(c.args[k].type, CalledType(c).params[k])

(***************************************************************************)
(* IR generator: the names of temporaries.                                 *)
(***************************************************************************)
\* the places of the literals of the program
LiteralLocations == {n.loc : n \in NodesOfKind(root_node, {"Literal"})}

\* the positions of a list whose destination new_var has just returned:
\* the load of a literal and every call
FreshPositions(L) ==
    {j \in Positions(L, "LoadBoolConst") \cup Positions(L, "LoadIntConst") :
        L[j].loc \in LiteralLocations}
    \cup Positions(L, "Call")

\* the variables the instructions of a list before position j name
NamedBefore(L, j) ==
    UNION {Operands(L[k]) : k \in 1..(j - 1)} \cup Destinations(SubSeq(L, 1, j - 1))

\* the names a function's type map holds before its body is lowered
InitialNames(L) == ReservedNames \cup Parameters(L)

\* the least number from n on whose temporary name is not taken
RECURSIVE FirstFree(_, _)
FirstFree(n, taken) ==
    IF ("x" \o ToString(n)) \in taken THEN FirstFree(n + 1, taken) ELSE n

\* the first position of a list that writes a fresh temporary
FirstFresh(L) == CHOOSE j \in FreshPositions(L) : \A k \in FreshPositions(L) : j <= k

\* C30: in every function's list, a temporary new_var has just returned is
\* no name of the function's initial type map and no variable an earlier
\* instruction of the list names; every list opens with the label start
\* and its first temporary is the first x-name free in its own initial
\* type map, whatever the other functions hold.
C30_TemporariesFresh ==
    Lowered =>
        \A key \in IrLists :
            /\ IrList(key)[2] = Label(IrList(key)[2].loc, "start")
            /\ \A j \in FreshPositions(IrList(key)) :
                   /\ IrList(key)[j].dest \notin InitialNames(IrList(key))
                   /\ IrList(key)[j].dest \notin NamedBefore(IrList(key), j)
            /\ FreshPositions(IrList(key)) # {} =>
                   IrList(key)[FirstFresh(IrList(key))].dest
                       = "x" \o ToString(FirstFree(1, InitialNames(IrList(key))))

\* a function whose parameter is named x1 takes x2 for its first
\* temporary, and main, lowered after it, starts again at x1
C30_ParameterNameSkipped ==
    /\ Lowered
    /\ \E key \in IrLists \ {"main"} :
           /\ "x1" \in Parameters(IrList(key))
           /\ IrList(key)[FirstFresh(IrList(key))].dest = "x2"
    /\ "main" \in IrLists
    /\ FreshPositions(IrList("main")) # {}
    /\ IrList("main")[FirstFresh(IrList("main"))].dest = "x1"

====
